---------------------------- MODULE Spec2Model ----------------------------
(***************************************************************************)
(* Session engine of PyTesira (src/src/pytesira/dsp.py).                   *)
(*                                                                         *)
(* Threads of control:                                                     *)
(*   main    - the application thread running DSP.connect and DSP.close    *)
(*   rx      - DSP.__rx_loop                                               *)
(*   worker  - DSP.__sync_cmd_process_loop                                 *)
(*   poller  - DSP.__device_data_refresh_loop                              *)
(*   u1      - an application thread calling DSP.device_command or a       *)
(*             setter of block B1                                          *)
(* and the device at the far end of the transport.  Time is abstracted:    *)
(* a wait with a timeout may time out at any moment it is waiting.         *)
(***************************************************************************)
EXTENDS Integers, Sequences, FiniteSets, TLC

\* ------------------------------------------------------------------ bounds
MaxAppCmds == 1     \* commands the application thread submits after connect
MaxPollCycles == 1  \* query cycles the poller begins
MaxPublish == 1     \* publish lines the device pushes
NumBaseline == 1    \* session commands connect issues before the block map
MaxStream == 4      \* symbols the transport is given (FramingSpec)
MaxSaves == 1       \* calls of save_block_map (CatalogSpec)
MaxSessions == 2    \* sessions begun one after the other (CatalogSpec)
MaxPath == 2        \* symbols of a path given to save_block_map

\* --------------------------------------------------------------- constants
Threads == {"main", "poller", "u1"}
BlockIds == {"B1", "B2"}
BlockOrder == <<"B1", "B2">>
Tokens == {"t1", "t2", "tx"}

None == [kind |-> "None", of |-> 0, token |-> "", n |-> 0]
Reply(k, id) == [kind |-> k, of |-> id, token |-> "", n |-> 0]
Publish(t, i) == [kind |-> "PUB", of |-> 0, token |-> t, n |-> i]

TokenOf(b) == IF b = "B1" THEN "t1" ELSE "t2"

VARIABLES
    ready,              \* DSP.ready
    exit,               \* DSP.__exit (Event)
    command_queue,      \* DSP.__command_queue: sequence of [id, handle]
    sync_cmd_mailbox,   \* DSP.__sync_cmd_mailbox
    block_mailbox,      \* per block: the mailbox _sync_command_callback fills
    rx_cmd_mailbox,     \* DSP.__rx_cmd_mailbox
    subscriptions,      \* DSP.__subscriptions: token -> owning block
    blocks,             \* DSP.blocks (the live catalog), set of block ids
    mainpc,             \* position of the main thread in connect / close
    baselineLeft,       \* session commands connect still has to issue
    blocksLeft,         \* blocks connect still has to construct
    rxpc,               \* position of the rx loop
    wpc,                \* position of the serializer worker
    wcur,               \* command the worker is executing
    ppc,                \* position of the poller
    cst,                \* per thread: position inside __sync_command
    chandle,            \* per thread: handle of the command being submitted
    cid,                \* per thread: id of the command being submitted
    ncalls,             \* [app, polls]: application commands, poller cycles begun
    wire,               \* lines in flight from the device to the rx loop
    devPending,         \* commands the device received and has not answered
    npub,               \* publish lines the device emitted
    putLog,             \* history: ids in the order they were queued
    sentLog,            \* history: ids in the order transport.send was called
    cb_log,             \* history: subscription_callback calls
    unknownPubs,        \* history: publishes taken that had no registry entry
    delivered,          \* history: [id, of] the worker delivered to a handle
    returned,           \* history: [id, of] __sync_command returned
    failed,             \* history: ids whose __sync_command raised
    wTimedOut,          \* history: ids whose __transport_send_and_wait raised
    transportFailed,    \* history: "no", "send" or "recv"
    pendingAtExit       \* history: ids in the command queue when exit was set

\* State of the sequential parts that are checked on their own: the line
\* framing of __transport_rx (FramingSpec).
VARIABLES
    rx_stream,          \* bytes the transport has not handed over yet
    rx_buffer,          \* DSP.__rx_buffer
    rx_lines,           \* history: the lines __transport_rx returned
    rx_input            \* history: everything the transport was given

framingVars == <<rx_stream, rx_buffer, rx_lines, rx_input>>

\* The block catalog of connect and the block map file (CatalogSpec); the
\* live catalog itself is the variable blocks.
VARIABLES
    cat_pc,             \* position of the session: "new", "map", "ready", "failed"
    block_map,          \* DSP.__block_map: nothing, the file's path, or the map
    file,               \* content of the file at the configured path
    hostname,           \* DSP.hostname
    dsp_aliases,        \* DSP.__dsp_aliases
    version,            \* DSP.__version
    skip_block_types,   \* DSP.__skip_block_types
    queries,            \* history: ids of the BLOCKTYPE queries of this session
    init_helpers,       \* history: per constructed block, the helper it was given
    pre_map,            \* history: the block map as __getDSPBlockMap returned it
    written,            \* history: the paths save_block_map opened for writing
    saved,              \* history: what the session held when it saved its map
    nsessions,          \* sessions begun
    type_replies,       \* history: the replies to the block type queries
    resubscribed,       \* history: the blocks the poller's last cycle re-registered
    faults,             \* DSP.faults: whether the poller has stored a fault set
    network             \* DSP.network: whether the poller has stored a network status

catalogVars == <<cat_pc, block_map, file, hostname, dsp_aliases, version,
                 skip_block_types, queries, init_helpers, pre_map, written,
                 saved, nsessions, type_replies>>
pollHist == <<resubscribed, faults, network>>

\* One block object on its own (BlockSpec), and the lines the device sends
\* without having been asked (StraySpec).
VARIABLES
    blk,                \* the block object: its class and its attributes
    exported,           \* what export_init_helper returned to connect
    last,               \* history: the last call made on the block and its outcome
    nstray              \* reply lines the device sent unasked

blockVars == <<blk, exported, last>>
strayHist == <<nstray>>
auxVars == <<framingVars, catalogVars, pollHist, strayHist, blockVars>>

exitVars == <<exit, pendingAtExit>>
flagVars == <<ready, exitVars>>
mboxVars == <<sync_cmd_mailbox, block_mailbox>>
regVars == <<subscriptions, blocks>>
mainVars == <<mainpc, baselineLeft, blocksLeft>>
workerVars == <<wpc, wcur>>
callVars == <<cst, chandle, cid>>
deviceVars == <<wire, devPending, npub>>
callHist == <<putLog, returned, failed>>
workerHist == <<sentLog, delivered, wTimedOut>>
rxHist == <<cb_log, unknownPubs>>
sessionVars == <<flagVars, command_queue, mboxVars, rx_cmd_mailbox, regVars,
                 mainVars, rxpc, workerVars, ppc, callVars, ncalls, deviceVars,
                 callHist, workerHist, rxHist, transportFailed>>
vars == <<sessionVars, auxVars>>

NoCmd == [id |-> 0, handle |-> "dsp"]

\* The registry: before connect creates it the attribute does not exist.
Unset == [created |-> FALSE, map |-> <<>>]
NoSubscriptions == [created |-> TRUE, map |-> <<>>]

SessionInit ==
    /\ ready = FALSE
    /\ exit = FALSE
    /\ resubscribed = {}
    /\ faults = "unset"
    /\ network = "unset"
    /\ nstray = 0
    /\ command_queue = <<>>
    /\ sync_cmd_mailbox = None
    /\ block_mailbox = [b \in BlockIds |-> None]
    /\ rx_cmd_mailbox = None
    /\ subscriptions = Unset
    /\ blocks = {}
    /\ mainpc = "init"
    /\ baselineLeft = NumBaseline
    /\ blocksLeft = BlockOrder
    /\ rxpc = "notstarted"
    /\ wpc = "notstarted"
    /\ wcur = NoCmd
    /\ ppc = "notstarted"
    /\ cst = [t \in Threads |-> "none"]
    /\ chandle = [t \in Threads |-> "dsp"]
    /\ cid = [t \in Threads |-> 0]
    /\ ncalls = [app |-> 0, polls |-> 0]
    /\ wire = <<>>
    /\ devPending = <<>>
    /\ npub = 0
    /\ putLog = <<>>
    /\ sentLog = <<>>
    /\ cb_log = <<>>
    /\ unknownPubs = {}
    /\ delivered = <<>>
    /\ returned = {}
    /\ failed = {}
    /\ wTimedOut = {}
    /\ transportFailed = "no"
    /\ pendingAtExit = {}

\* Nothing has been received.
FramingIdle ==
    /\ rx_stream = <<>>
    /\ rx_buffer = <<>>
    /\ rx_lines = <<>>
    /\ rx_input = <<>>

\* No session has been constructed.
CatalogIdle ==
    /\ cat_pc = "idle"
    /\ block_map = [kind |-> "none", map |-> <<>>]
    /\ file = [state |-> "absent"]
    /\ hostname = ""
    /\ dsp_aliases = <<>>
    /\ version = ""
    /\ skip_block_types = {}
    /\ queries = <<>>
    /\ init_helpers = <<>>
    /\ pre_map = <<>>
    /\ written = <<>>
    /\ saved = [state |-> "no"]
    /\ nsessions = 0
    /\ type_replies = <<>>

\* No block object is looked at on its own.
NoBlock == [class |-> "none"]
NoCall == [op |-> "none"]
BlockIdle ==
    /\ blk = NoBlock
    /\ exported = NoBlock
    /\ last = NoCall

Init == SessionInit /\ FramingIdle /\ CatalogIdle /\ BlockIdle

\* ------------------------------------------------------------ helpers
Append2(s, e) == s \o <<e>>

IsPrefix(s, t) == /\ Len(s) <= Len(t)
                  /\ \A i \in 1..Len(s) : s[i] = t[i]

Range(s) == {s[i] : i \in DOMAIN s}

\* The Python truth test `if mailbox:` on None / a TTPResponse object.
Truthy(m) == m # None

MailboxOf(h) == IF h = "dsp" THEN sync_cmd_mailbox ELSE block_mailbox[h]

\* Assignment of v to the mailbox the handle h reads its replies from.
SetMailbox(h, v) ==
    IF h = "dsp"
    THEN /\ sync_cmd_mailbox' = v
         /\ UNCHANGED block_mailbox
    ELSE /\ block_mailbox' = [block_mailbox EXCEPT ![h] = v]
         /\ UNCHANGED sync_cmd_mailbox

\* ------------------------------------------------- __sync_command (submit)
\* Entry of __sync_command: the mailbox is cleaned out.  The thread's own
\* program variables (mainVars, ppc) and the call counters of the model
\* (ncalls) are left to the calling action.
SyncCommandBegin(t, h) ==
    /\ cst[t] = "none"
    /\ SetMailbox(h, None)
    /\ chandle' = [chandle EXCEPT ![t] = h]
    /\ cst' = [cst EXCEPT ![t] = "put"]
    /\ UNCHANGED <<auxVars, flagVars, command_queue, rx_cmd_mailbox, regVars, rxpc,
                   workerVars, cid, deviceVars, callHist, workerHist, rxHist,
                   transportFailed>>

\* command_queue.put((handle, command))
SyncCommandPut(t) ==
    /\ cst[t] = "put"
    /\ command_queue' = Append2(command_queue,
                                [id |-> Len(putLog) + 1, handle |-> chandle[t]])
    /\ putLog' = Append2(putLog, Len(putLog) + 1)
    /\ cid' = [cid EXCEPT ![t] = Len(putLog) + 1]
    /\ cst' = [cst EXCEPT ![t] = "wait"]
    /\ UNCHANGED <<auxVars, flagVars, mboxVars, rx_cmd_mailbox, regVars, mainVars, rxpc,
                   workerVars, ppc, chandle, ncalls, deviceVars, returned,
                   failed, workerHist, rxHist, transportFailed>>

\* Where a thread stands after __sync_command returned or raised: the
\* application thread is back in the application, the others go on.
After(t, outcome) == IF t = "u1" THEN "none" ELSE outcome

\* The wait loop found the mailbox filled: take the response and return it.
SyncCommandGet(t) ==
    /\ cst[t] = "wait"
    /\ Truthy(MailboxOf(chandle[t]))
    /\ SetMailbox(chandle[t], None)
    /\ returned' = returned \cup {[id |-> cid[t], of |-> MailboxOf(chandle[t]).of]}
    /\ cst' = [cst EXCEPT ![t] = After(t, "ret")]
    /\ cid' = [cid EXCEPT ![t] = 0]
    /\ UNCHANGED <<auxVars, flagVars, command_queue, rx_cmd_mailbox, regVars, mainVars,
                   rxpc, workerVars, ppc, chandle, ncalls, deviceVars,
                   putLog, failed, workerHist, rxHist, transportFailed>>

\* The wait loop ran out of time: clear the mailbox and raise.
SyncCommandTimeout(t) ==
    /\ cst[t] = "wait"
    /\ SetMailbox(chandle[t], None)
    /\ failed' = failed \cup {cid[t]}
    /\ cst' = [cst EXCEPT ![t] = After(t, "exc")]
    /\ cid' = [cid EXCEPT ![t] = 0]
    /\ UNCHANGED <<auxVars, flagVars, command_queue, rx_cmd_mailbox, regVars, mainVars,
                   rxpc, workerVars, ppc, chandle, ncalls, deviceVars,
                   putLog, returned, workerHist, rxHist, transportFailed>>

\* ---------------------------------------------------------------- connect
\* connect up to the start of the serializer worker: the transport is started
\* and reports connected, the rx thread and the worker thread are started.
ConnectStart ==
    /\ mainpc = "init"
    /\ rxpc' = "run"
    /\ command_queue' = <<>>
    /\ sync_cmd_mailbox' = None
    /\ wpc' = "check"
    /\ mainpc' = "baseline"
    /\ UNCHANGED <<auxVars, flagVars, block_mailbox, rx_cmd_mailbox, regVars,
                   baselineLeft, blocksLeft, wcur, ppc, callVars, ncalls,
                   deviceVars, callHist, workerHist, rxHist, transportFailed>>

\* One of the session commands of connect (baseline, device statistics).
ConnectCommand ==
    /\ mainpc = "baseline"
    /\ baselineLeft > 0
    /\ SyncCommandBegin("main", "dsp")
    /\ UNCHANGED <<mainVars, ppc, ncalls>>

ConnectCommandReturn ==
    /\ mainpc = "baseline"
    /\ cst["main"] = "ret"
    /\ baselineLeft' = baselineLeft - 1
    /\ cst' = [cst EXCEPT !["main"] = "none"]
    /\ UNCHANGED <<auxVars, flagVars, command_queue, mboxVars, rx_cmd_mailbox, regVars,
                   mainpc, blocksLeft, rxpc, workerVars, ppc, chandle, cid,
                   ncalls, deviceVars, callHist, workerHist, rxHist,
                   transportFailed>>

\* A command of connect raised (timeout): the exception leaves connect.
ConnectRaise ==
    /\ mainpc \in {"baseline", "blocks"}
    /\ cst["main"] = "exc"
    /\ mainpc' = "connect_failed"
    /\ cst' = [cst EXCEPT !["main"] = "none"]
    /\ UNCHANGED <<auxVars, flagVars, command_queue, mboxVars, rx_cmd_mailbox, regVars,
                   baselineLeft, blocksLeft, rxpc, workerVars, ppc, chandle,
                   cid, ncalls, deviceVars, callHist, workerHist, rxHist,
                   transportFailed>>

\* The block map is resolved; the registry and the live catalog are created.
ConnectBlockMap ==
    /\ mainpc = "baseline"
    /\ baselineLeft = 0
    /\ cst["main"] = "none"
    /\ subscriptions' = NoSubscriptions
    /\ blocks' = {}
    /\ mainpc' = "blocks"
    /\ UNCHANGED <<auxVars, flagVars, command_queue, mboxVars, rx_cmd_mailbox,
                   baselineLeft, blocksLeft, rxpc, workerVars, ppc, callVars,
                   ncalls, deviceVars, callHist, workerHist, rxHist,
                   transportFailed>>

\* Construction of the next block of the map: the block registers its
\* subscription with a command on its own handle.
ConnectBlockConstruct ==
    /\ mainpc = "blocks"
    /\ blocksLeft # <<>>
    /\ SyncCommandBegin("main", Head(blocksLeft))
    /\ UNCHANGED <<mainVars, ppc, ncalls>>

\* _register_subscription installs the record of the block's token.
RegisterSubscription(reg, b) ==
    [reg EXCEPT !.map = [t \in (DOMAIN reg.map) \cup {TokenOf(b)} |->
                            IF t = TokenOf(b) THEN b ELSE reg.map[t]]]

\* The block is constructed and joins the live catalog.
ConnectBlockDone ==
    /\ mainpc = "blocks"
    /\ cst["main"] = "ret"
    /\ subscriptions' = RegisterSubscription(subscriptions, Head(blocksLeft))
    /\ blocks' = blocks \cup {Head(blocksLeft)}
    /\ blocksLeft' = Tail(blocksLeft)
    /\ cst' = [cst EXCEPT !["main"] = "none"]
    /\ UNCHANGED <<auxVars, flagVars, command_queue, mboxVars, rx_cmd_mailbox, mainpc,
                   baselineLeft, rxpc, workerVars, ppc, chandle, cid, ncalls,
                   deviceVars, callHist, workerHist, rxHist, transportFailed>>

\* The poller thread is started and the session is marked ready.
ConnectFinish ==
    /\ mainpc = "blocks"
    /\ blocksLeft = <<>>
    /\ cst["main"] = "none"
    /\ ppc' = "check"
    /\ ready' = TRUE
    /\ mainpc' = "ready"
    /\ UNCHANGED <<auxVars, exitVars, command_queue, mboxVars, rx_cmd_mailbox, regVars,
                   baselineLeft, blocksLeft, rxpc, workerVars, callVars, ncalls,
                   deviceVars, callHist, workerHist, rxHist, transportFailed>>

\* ------------------------------------------------------------------ close
\* Mutant: close goes on to set the exit flag without clearing ready.
CloseBegin_KeepsReady ==
    /\ mainpc = "ready"
    /\ mainpc' = "close_exit"
    /\ UNCHANGED <<auxVars, flagVars, command_queue, mboxVars, rx_cmd_mailbox, regVars,
                   baselineLeft, blocksLeft, rxpc, workerVars, ppc, callVars,
                   ncalls, deviceVars, callHist, workerHist, rxHist,
                   transportFailed>>

\* close: `self.ready = False`
CloseBegin ==
    /\ mainpc = "ready"
    /\ ready' = FALSE
    /\ mainpc' = "close_exit"
    /\ UNCHANGED <<auxVars, exitVars, command_queue, mboxVars, rx_cmd_mailbox, regVars,
                   baselineLeft, blocksLeft, rxpc, workerVars, ppc, callVars,
                   ncalls, deviceVars, callHist, workerHist, rxHist,
                   transportFailed>>

CloseSetExit ==
    /\ mainpc = "close_exit"
    /\ exit' = TRUE
    /\ pendingAtExit' = {command_queue[i].id : i \in DOMAIN command_queue}
    /\ mainpc' = "join_rx"
    /\ UNCHANGED <<auxVars, ready, command_queue, mboxVars, rx_cmd_mailbox, regVars,
                   baselineLeft, blocksLeft, rxpc, workerVars, ppc, callVars,
                   ncalls, deviceVars, callHist, workerHist, rxHist,
                   transportFailed>>

\* Thread.join returns once the thread has ended, normally or by an exception.
Ended(pc) == pc \in {"done", "dead"}

CloseJoin ==
    /\ \/ mainpc = "join_rx" /\ Ended(rxpc) /\ mainpc' = "join_worker"
       \/ mainpc = "join_worker" /\ Ended(wpc) /\ mainpc' = "join_poller"
       \/ mainpc = "join_poller" /\ Ended(ppc) /\ mainpc' = "closed"
    /\ UNCHANGED <<auxVars, flagVars, command_queue, mboxVars, rx_cmd_mailbox, regVars,
                   baselineLeft, blocksLeft, rxpc, workerVars, ppc, callVars,
                   ncalls, deviceVars, callHist, workerHist, rxHist,
                   transportFailed>>

\* ------------------------------------------------- __sync_cmd_process_loop
\* Mutant: the worker's loop test never sees the exit flag.
ExitIsSet_Never(e) == FALSE

\* `self.__exit.is_set()`
ExitIsSet(e) == e

\* `while not self.__exit.is_set()`
WorkerCheck ==
    /\ wpc = "check"
    /\ wpc' = IF ExitIsSet(exit) THEN "done" ELSE "get"
    /\ UNCHANGED <<auxVars, flagVars, command_queue, mboxVars, rx_cmd_mailbox, regVars,
                   mainVars, rxpc, wcur, ppc, callVars, ncalls, deviceVars,
                   callHist, workerHist, rxHist, transportFailed>>

\* command_queue.get(timeout = 0.5) raised queue.Empty: next iteration.
WorkerGetEmpty ==
    /\ wpc = "get"
    /\ command_queue = <<>>
    /\ wpc' = "check"
    /\ UNCHANGED <<auxVars, flagVars, command_queue, mboxVars, rx_cmd_mailbox, regVars,
                   mainVars, rxpc, wcur, ppc, callVars, ncalls, deviceVars,
                   callHist, workerHist, rxHist, transportFailed>>

\* Mutant: the queue hands out the newest submission first.
QueueGet_Lifo(q) == [item |-> q[Len(q)], rest |-> SubSeq(q, 1, Len(q) - 1)]

\* queue.Queue.get: first-in first-out.
QueueGet(q) == [item |-> Head(q), rest |-> Tail(q)]

\* The worker takes the next command and __transport_send_and_wait sends it.
WorkerSend ==
    /\ wpc = "get"
    /\ command_queue # <<>>
    /\ wcur' = QueueGet(command_queue).item
    /\ command_queue' = QueueGet(command_queue).rest
    /\ devPending' = Append2(devPending, QueueGet(command_queue).item.id)
    /\ sentLog' = Append2(sentLog, QueueGet(command_queue).item.id)
    /\ wpc' = "wait"
    /\ UNCHANGED <<auxVars, flagVars, mboxVars, rx_cmd_mailbox, regVars, mainVars, rxpc,
                   ppc, callVars, ncalls, wire, npub, callHist, delivered,
                   wTimedOut, rxHist, transportFailed>>

\* transport.send raises: the exception leaves the worker's thread function.
WorkerSendRaises ==
    /\ wpc = "get"
    /\ command_queue # <<>>
    /\ transportFailed = "no"
    /\ wcur' = QueueGet(command_queue).item
    /\ command_queue' = QueueGet(command_queue).rest
    /\ transportFailed' = "send"
    /\ wpc' = "dead"
    /\ UNCHANGED <<auxVars, flagVars, mboxVars, rx_cmd_mailbox, regVars, mainVars, rxpc,
                   ppc, callVars, ncalls, deviceVars, callHist, workerHist,
                   rxHist>>

\* Mutant: __transport_send_and_wait returns without waiting for the reply.
WaitOver_NoWait(mb) == TRUE

\* The wait loop of __transport_send_and_wait ends when the mailbox is filled.
WaitOver(mb) == Truthy(mb)

\* The mailbox the worker delivers the response of a command to: the
\* session's own for the session handle, else the block's callback.
DeliveryTarget(cmd) == cmd.handle

\* __transport_send_and_wait takes the response out of the command mailbox
\* and the worker delivers it to the handle of the command.
WorkerReply ==
    /\ wpc = "wait"
    /\ WaitOver(rx_cmd_mailbox)
    /\ rx_cmd_mailbox' = None
    /\ SetMailbox(DeliveryTarget(wcur), rx_cmd_mailbox)
    /\ delivered' = Append2(delivered, [id |-> wcur.id, of |-> rx_cmd_mailbox.of])
    /\ wpc' = "check"
    /\ wcur' = NoCmd
    /\ UNCHANGED <<auxVars, flagVars, command_queue, regVars, mainVars, rxpc, ppc,
                   callVars, ncalls, deviceVars, callHist, sentLog, wTimedOut,
                   rxHist, transportFailed>>

\* No reply within the timeout: the mailbox is cleared and the exception
\* raised by __transport_send_and_wait leaves the worker's thread function.
WorkerTimeout ==
    /\ wpc = "wait"
    /\ rx_cmd_mailbox' = None
    /\ wTimedOut' = wTimedOut \cup {wcur.id}
    /\ wpc' = "dead"
    /\ UNCHANGED <<auxVars, flagVars, command_queue, mboxVars, regVars, mainVars, rxpc,
                   wcur, ppc, callVars, ncalls, deviceVars, callHist, sentLog,
                   delivered, rxHist, transportFailed>>

\* --------------------------------------------------------------- __rx_loop
\* `while not self.__exit.is_set()`
RxExit ==
    /\ rxpc = "run"
    /\ exit
    /\ rxpc' = "done"
    /\ UNCHANGED <<auxVars, flagVars, command_queue, mboxVars, rx_cmd_mailbox, regVars,
                   mainVars, workerVars, ppc, callVars, ncalls, deviceVars,
                   callHist, workerHist, rxHist, transportFailed>>

\* Mutant: no line is recognised as a publish.
IsSubscription_Never(line) == FALSE

\* `decoded.type == TTPResponseType.SUBSCRIPTION`
IsSubscription(line) == line.kind = "PUB"

\* A command response goes to the command mailbox.
RxResponse ==
    /\ rxpc = "run"
    /\ ~exit
    /\ wire # <<>>
    /\ ~IsSubscription(Head(wire))
    /\ rx_cmd_mailbox' = Head(wire)
    /\ wire' = Tail(wire)
    /\ UNCHANGED <<auxVars, flagVars, command_queue, mboxVars, regVars, mainVars, rxpc,
                   workerVars, ppc, callVars, ncalls, devPending, npub,
                   callHist, workerHist, rxHist, transportFailed>>

\* `self.__subscriptions[token]` finds an entry.
HasSubscriber(reg, token) == reg.created /\ token \in DOMAIN reg.map

\* Mutant: the lookup yields a block other than the registered one.
SubHandle_Wrong(reg, token) == CHOOSE b \in BlockIds : b # reg.map[token]

SubHandle(reg, token) == reg.map[token]

\* The classes of the two blocks of the model.
BlockClass(b) == IF b = "B1" THEN "DanteInput" ELSE "MuteControl"

\* Mutant: the callback of every class queries the device.
CallbackSubmits_Always(c) == TRUE

\* The subscription_callback of the class calls _sync_command: none of
\* BaseLevelMute, DanteInput, MuteControl and SourceSelector does, they
\* assign to attributes of the block and log.
CallbackSubmits(c) == FALSE

\* A publish with a registry entry: the owner's subscription_callback runs.
\* A callback that submitted a command would wait for its reply inside the
\* rx thread.
RxPublish ==
    /\ rxpc = "run"
    /\ ~exit
    /\ wire # <<>>
    /\ IsSubscription(Head(wire))
    /\ HasSubscriber(subscriptions, Head(wire).token)
    /\ cb_log' = Append2(cb_log,
           [block |-> SubHandle(subscriptions, Head(wire).token),
            token |-> Head(wire).token,
            n |-> Head(wire).n,
            waiting |-> (wpc = "wait")])
    /\ wire' = Tail(wire)
    /\ IF CallbackSubmits(BlockClass(SubHandle(subscriptions, Head(wire).token)))
       THEN /\ rxpc' = "callback"
            /\ command_queue' = Append2(command_queue,
                   [id |-> Len(putLog) + 1,
                    handle |-> SubHandle(subscriptions, Head(wire).token)])
            /\ putLog' = Append2(putLog, Len(putLog) + 1)
       ELSE UNCHANGED <<rxpc, command_queue, putLog>>
    /\ UNCHANGED <<auxVars, flagVars, mboxVars, rx_cmd_mailbox, regVars,
                   mainVars, workerVars, ppc, callVars, ncalls,
                   devPending, npub, returned, failed, workerHist,
                   unknownPubs, transportFailed>>

\* A publish without a registry entry: the dictionary lookup raises (KeyError,
\* or AttributeError before connect created the registry) and the exception
\* leaves the rx thread function.
RxPublishUnknown ==
    /\ rxpc = "run"
    /\ ~exit
    /\ wire # <<>>
    /\ IsSubscription(Head(wire))
    /\ ~HasSubscriber(subscriptions, Head(wire).token)
    /\ wire' = Tail(wire)
    /\ unknownPubs' = unknownPubs \cup {Head(wire).n}
    /\ rxpc' = "dead"
    /\ UNCHANGED <<auxVars, flagVars, command_queue, mboxVars, rx_cmd_mailbox, regVars,
                   mainVars, workerVars, ppc, callVars, ncalls, devPending,
                   npub, callHist, workerHist, cb_log, transportFailed>>

\* transport.recv raises inside __transport_rx.
RxRecvRaises ==
    /\ rxpc = "run"
    /\ ~exit
    /\ transportFailed = "no"
    /\ transportFailed' = "recv"
    /\ rxpc' = "dead"
    /\ UNCHANGED <<auxVars, flagVars, command_queue, mboxVars, rx_cmd_mailbox, regVars,
                   mainVars, workerVars, ppc, callVars, ncalls, deviceVars,
                   callHist, workerHist, rxHist>>

\* ------------------------------------------------ __device_data_refresh_loop
PollerExit ==
    /\ ppc = "check"
    /\ exit
    /\ ppc' = "done"
    /\ UNCHANGED <<auxVars, flagVars, command_queue, mboxVars, rx_cmd_mailbox, regVars,
                   mainVars, rxpc, workerVars, callVars, ncalls, deviceVars,
                   callHist, workerHist, rxHist, transportFailed>>

\* DEVICE get activeFaultList, the first query of a cycle (the model bounds
\* the number of cycles begun).
PollerQueryFaults ==
    /\ ppc = "check"
    /\ ~exit
    /\ ncalls.polls < MaxPollCycles
    /\ ncalls' = [ncalls EXCEPT !.polls = @ + 1]
    /\ SyncCommandBegin("poller", "dsp")
    /\ ppc' = "faults"
    /\ UNCHANGED mainVars

\* The reply to the first query is stored as the fault set (`.value[0]`);
\* then DEVICE get networkStatus.
PollerQueryNetwork ==
    /\ ppc = "faults"
    /\ cst["poller"] = "ret"
    /\ faults' = "stored"
    /\ SetMailbox("dsp", None)
    /\ cst' = [cst EXCEPT !["poller"] = "put"]
    /\ ppc' = "network"
    /\ UNCHANGED <<framingVars, catalogVars, strayHist, blockVars, resubscribed,
                   network, flagVars, command_queue, rx_cmd_mailbox, regVars, mainVars,
                   rxpc, workerVars, chandle, cid, ncalls, deviceVars, callHist,
                   workerHist, rxHist, transportFailed>>

\* The attributes of the instances of the two classes that have to do with
\* registering subscriptions: Python stores BaseLevelMute's
\* `__register_base_subscriptions` under its mangled name.
ClassAttrs(c) ==
    IF c = "DanteInput"
    THEN {"subscribe", "_register_subscription",
          "_BaseLevelMute__register_base_subscriptions"}
    ELSE {"subscribe", "_register_subscription", "register_subscriptions"}

\* hasattr(self.blocks[block_id], name)
HasAttr(b, name) == name \in ClassAttrs(BlockClass(b))

\* The blocks the re-registration loop of the poller calls.
Reregistered(bs) == {b \in bs : HasAttr(b, "_register_base_subscriptions")}

\* Mutant: the poller sleeps after the first query and begins anew.
PollerSleep_Early ==
    /\ ppc = "faults"
    /\ cst["poller"] = "ret"
    /\ ppc' = "check"
    /\ cst' = [cst EXCEPT !["poller"] = "none"]
    /\ UNCHANGED <<auxVars, flagVars, command_queue, mboxVars, rx_cmd_mailbox, regVars,
                   mainVars, rxpc, workerVars, chandle, cid, ncalls, deviceVars,
                   callHist, workerHist, rxHist, transportFailed>>

\* The reply to the second query is stored as the network status; then the
\* re-registration loop, which finds no block with an attribute
\* `_register_base_subscriptions` and calls nothing; then the poller sleeps
\* for the refresh interval and returns to the loop test.
PollerSleep ==
    /\ ppc = "network"
    /\ cst["poller"] = "ret"
    /\ network' = "stored"
    /\ resubscribed' = Reregistered(blocks)
    /\ ppc' = "check"
    /\ cst' = [cst EXCEPT !["poller"] = "none"]
    /\ UNCHANGED <<framingVars, catalogVars, strayHist, blockVars, faults,
                   flagVars, command_queue, mboxVars, rx_cmd_mailbox, regVars,
                   mainVars, rxpc, workerVars, chandle, cid, ncalls, deviceVars,
                   callHist, workerHist, rxHist, transportFailed>>

\* A query of the poller raised: the exception leaves its thread function.
PollerRaise ==
    /\ ppc \in {"faults", "network"}
    /\ cst["poller"] = "exc"
    /\ ppc' = "dead"
    /\ cst' = [cst EXCEPT !["poller"] = "none"]
    /\ UNCHANGED <<auxVars, flagVars, command_queue, mboxVars, rx_cmd_mailbox, regVars,
                   mainVars, rxpc, workerVars, chandle, cid, ncalls, deviceVars,
                   callHist, workerHist, rxHist, transportFailed>>

\* ------------------------------------------------------ application thread
\* The application holds the session once connect has returned.
ConnectReturned == mainpc \in {"ready", "close_exit", "join_rx", "join_worker",
                               "join_poller", "closed"}

\* device_command: `assert self.ready`, then __sync_command.
DeviceCommand ==
    /\ ready
    /\ ncalls.app < MaxAppCmds
    /\ ncalls' = [ncalls EXCEPT !.app = @ + 1]
    /\ SyncCommandBegin("u1", "dsp")
    /\ UNCHANGED <<mainVars, ppc>>

\* A setter of block B1: the block's _sync_command with the block as handle.
BlockSetter ==
    /\ ConnectReturned
    /\ "B1" \in blocks
    /\ ncalls.app < MaxAppCmds
    /\ ncalls' = [ncalls EXCEPT !.app = @ + 1]
    /\ SyncCommandBegin("u1", "B1")
    /\ UNCHANGED <<mainVars, ppc>>

\* ------------------------------------------------------------------ device
\* The device answers the oldest command it has not answered yet.
DeviceReply(k) ==
    /\ devPending # <<>>
    /\ wire' = Append2(wire, Reply(k, Head(devPending)))
    /\ devPending' = Tail(devPending)
    /\ UNCHANGED <<auxVars, flagVars, command_queue, mboxVars, rx_cmd_mailbox, regVars,
                   mainVars, rxpc, workerVars, ppc, callVars, ncalls, npub,
                   callHist, workerHist, rxHist, transportFailed>>

\* Mutant: a received line is put in front of the lines received before.
WirePut_Front(w, line) == <<line>> \o w

\* `self.__rx_buffer += str(self.__transport.recv(...))`: what is received
\* is put behind what was received before.
WirePut(w, line) == Append2(w, line)

\* The device pushes a publish line (at most `max` of them).
DevicePublishUpTo(t, max) ==
    /\ subscriptions.created
    /\ npub < max
    /\ npub' = npub + 1
    /\ wire' = WirePut(wire, Publish(t, npub + 1))
    /\ UNCHANGED <<auxVars, flagVars, command_queue, mboxVars, rx_cmd_mailbox, regVars,
                   mainVars, rxpc, workerVars, ppc, callVars, ncalls,
                   devPending, callHist, workerHist, rxHist, transportFailed>>

\* The device pushes a publish line.
DevicePublish(t) ==
    /\ subscriptions.created
    /\ npub < MaxPublish
    /\ npub' = npub + 1
    /\ wire' = Append2(wire, Publish(t, npub + 1))
    /\ UNCHANGED <<auxVars, flagVars, command_queue, mboxVars, rx_cmd_mailbox, regVars,
                   mainVars, rxpc, workerVars, ppc, callVars, ncalls,
                   devPending, callHist, workerHist, rxHist, transportFailed>>

\* Reply lines the device sends unasked.
MaxStray == 1

\* The rx loop receives a line that is not a publish while no command is in
\* flight (the device sent it unasked: it answers none of the commands, id
\* 0): like every response it goes to the command mailbox.
RxStray ==
    /\ ready
    /\ rxpc = "run"
    /\ ~exit
    /\ wire = <<>>
    /\ wpc \in {"check", "get"}
    /\ nstray < MaxStray
    /\ nstray' = nstray + 1
    /\ rx_cmd_mailbox' = Reply("OK", 0)
    /\ UNCHANGED <<framingVars, catalogVars, pollHist, blockVars, flagVars,
                   command_queue, mboxVars, regVars, mainVars, rxpc,
                   workerVars, ppc, callVars, ncalls, deviceVars, callHist,
                   workerHist, rxHist, transportFailed>>

\* ------------------------------------------------------------ specification
Connect == \/ ConnectStart
           \/ ConnectCommand
           \/ ConnectCommandReturn
           \/ ConnectRaise
           \/ ConnectBlockMap
           \/ ConnectBlockConstruct
           \/ ConnectBlockDone
           \/ ConnectFinish

Close == CloseBegin \/ CloseSetExit \/ CloseJoin

Submit == \E t \in Threads :
              SyncCommandPut(t) \/ SyncCommandGet(t) \/ SyncCommandTimeout(t)

Worker == \/ WorkerCheck
          \/ WorkerGetEmpty
          \/ WorkerSend
          \/ WorkerSendRaises
          \/ WorkerReply
          \/ WorkerTimeout

Rx == RxExit \/ RxResponse \/ RxPublish \/ RxPublishUnknown \/ RxRecvRaises

Poller == \/ PollerExit
          \/ PollerQueryFaults
          \/ PollerQueryNetwork
          \/ PollerSleep
          \/ PollerRaise

Device == \/ \E k \in {"OK", "ERR"} : DeviceReply(k)
          \/ \E t \in Tokens : DevicePublish(t)

Next == \/ Connect
        \/ Close
        \/ Submit
        \/ Worker
        \/ Rx
        \/ Poller
        \/ DeviceCommand
        \/ BlockSetter
        \/ Device

Spec == Init /\ [][Next]_vars

\* The session as connect leaves it: the baseline queries and the two
\* block constructions are done (commands 1..3), the three threads run, the
\* session is ready.
StrayInit ==
    /\ FramingIdle /\ CatalogIdle /\ BlockIdle
    /\ ready = TRUE
    /\ exit = FALSE
    /\ resubscribed = {}
    /\ faults = "unset"
    /\ network = "unset"
    /\ nstray = 0
    /\ command_queue = <<>>
    /\ sync_cmd_mailbox = None
    /\ block_mailbox = [b \in BlockIds |-> None]
    /\ rx_cmd_mailbox = None
    /\ subscriptions = [created |-> TRUE, map |-> [t1 |-> "B1", t2 |-> "B2"]]
    /\ blocks = BlockIds
    /\ mainpc = "ready"
    /\ baselineLeft = 0
    /\ blocksLeft = <<>>
    /\ rxpc = "run"
    /\ wpc = "check"
    /\ wcur = NoCmd
    /\ ppc = "check"
    /\ cst = [t \in Threads |-> "none"]
    /\ chandle = [main |-> "B2", poller |-> "dsp", u1 |-> "dsp"]
    /\ cid = [t \in Threads |-> 0]
    /\ ncalls = [app |-> 0, polls |-> 0]
    /\ wire = <<>>
    /\ devPending = <<>>
    /\ npub = 0
    /\ putLog = <<1, 2, 3>>
    /\ sentLog = <<1, 2, 3>>
    /\ cb_log = <<>>
    /\ unknownPubs = {}
    /\ delivered = [i \in 1..3 |-> [id |-> i, of |-> i]]
    /\ returned = {[id |-> i, of |-> i] : i \in 1..3}
    /\ failed = {}
    /\ wTimedOut = {}
    /\ transportFailed = "no"
    /\ pendingAtExit = {}

\* The connected session with a device that also sends reply lines unasked:
\* the commands of the poller and of device_command, the serializer, the rx
\* loop and the device's replies.
StrayNext ==
    \/ DeviceCommand
    \/ Submit
    \/ WorkerCheck
    \/ WorkerGetEmpty
    \/ WorkerSend
    \/ WorkerReply
    \/ WorkerTimeout
    \/ RxResponse
    \/ RxStray
    \/ PollerQueryFaults
    \/ PollerQueryNetwork
    \/ PollerSleep
    \/ PollerRaise
    \/ \E k \in {"OK", "ERR"} : DeviceReply(k)

StraySpec == StrayInit /\ [][StrayNext]_vars

\* Publish lines the device pushes to the connected session.
MaxOrdered == 3

\* The connected session with a device that pushes several publishes while
\* the application's command is served.
OrderNext ==
    \/ DeviceCommand
    \/ Submit
    \/ WorkerCheck
    \/ WorkerGetEmpty
    \/ WorkerSend
    \/ WorkerReply
    \/ WorkerTimeout
    \/ RxResponse
    \/ RxPublish
    \/ RxPublishUnknown
    \/ \E k \in {"OK", "ERR"} : DeviceReply(k)
    \/ \E t \in Tokens : DevicePublishUpTo(t, MaxOrdered)

OrderSpec == StrayInit /\ [][OrderNext]_vars

\* Every started thread keeps being scheduled and every timed wait runs out
\* unless it is served first; failures of the transport, the device's lines
\* and the application's calls are not forced.
Fairness ==
    /\ WF_vars(WorkerCheck \/ WorkerGetEmpty \/ WorkerSend \/ WorkerReply \/ WorkerTimeout)
    /\ WF_vars(RxExit \/ RxResponse \/ RxPublish \/ RxPublishUnknown)
    /\ WF_vars(Poller)
    /\ WF_vars(Submit)
    /\ WF_vars(CloseSetExit \/ CloseJoin)

FairSpec == Spec /\ Fairness

\* ------------------------------------------------------- __transport_rx
\* The received text is a sequence of symbols: the three reply prefixes, a
\* symbol for any other printable text, a blank and the newline.
Symbols == {"+OK", "-ERR", "!", "x", " ", "\n"}

RECURSIVE SeqsUpTo(_, _)
SeqsUpTo(S, n) ==
    IF n = 0 THEN {<<>>}
    ELSE LET shorter == SeqsUpTo(S, n - 1)
         IN  shorter \cup {Append(q, c) : q \in shorter, c \in S}

\* str.strip()
RECURSIVE LStrip(_)
LStrip(l) == IF l # <<>> /\ Head(l) = " " THEN LStrip(Tail(l)) ELSE l

RECURSIVE RStrip(_)
RStrip(l) ==
    IF l # <<>> /\ l[Len(l)] = " " THEN RStrip(SubSeq(l, 1, Len(l) - 1)) ELSE l

Strip(l) == RStrip(LStrip(l))

\* str.find("\n"): the position of the first newline (0 when there is none).
RECURSIVE Find(_, _)
Find(buf, i) ==
    IF i > Len(buf) THEN 0
    ELSE IF buf[i] = "\n" THEN i ELSE Find(buf, i + 1)

\* Mutant: every non-empty line is taken for a valid line.
ValidLine_Any(line) == line # <<>>

\* `line != "" and (line.startswith("+OK") or "-ERR" or "!")`
ValidLine(line) == line # <<>> /\ Head(line) \in {"+OK", "-ERR", "!"}

\* What __transport_rx returns when it found no valid line (None).
NoLine == <<>>

\* The `while "\n" in self.__rx_buffer` loop: lines are cut off the buffer
\* until one is valid or no newline is left.
RECURSIVE ExtractLine(_)
ExtractLine(buf) ==
    LET pos == Find(buf, 1)
        line == Strip(SubSeq(buf, 1, pos - 1))
        rest == SubSeq(buf, pos + 1, Len(buf))
    IN  IF pos = 0 THEN [line |-> NoLine, buffer |-> buf]
        ELSE IF ValidLine(line) THEN [line |-> line, buffer |-> rest]
        ELSE ExtractLine(rest)

\* Mutant: what the transport has ready replaces the buffer.
TransportRx_Unbuffered(k) ==
    /\ k \in 0..Len(rx_stream)
    /\ rx_stream # <<>> \/ Find(rx_buffer, 1) # 0
    /\ LET got == ExtractLine(SubSeq(rx_stream, 1, k))
       IN  /\ rx_buffer' = got.buffer
           /\ rx_lines' = IF got.line = NoLine THEN rx_lines
                          ELSE Append2(rx_lines, got.line)
    /\ rx_stream' = SubSeq(rx_stream, k + 1, Len(rx_stream))
    /\ UNCHANGED <<sessionVars, catalogVars, pollHist, strayHist, blockVars,
                   rx_input>>

\* One call of __transport_rx: the buffer is filled with what the transport
\* has ready (the first k symbols of the stream), then a line is extracted;
\* the rx loop goes on with the line if there is one.
TransportRx(k) ==
    /\ k \in 0..Len(rx_stream)
    /\ rx_stream # <<>> \/ Find(rx_buffer, 1) # 0
    /\ LET filled == rx_buffer \o SubSeq(rx_stream, 1, k)
           got == ExtractLine(filled)
       IN  /\ rx_buffer' = got.buffer
           /\ rx_lines' = IF got.line = NoLine THEN rx_lines
                          ELSE Append2(rx_lines, got.line)
    /\ rx_stream' = SubSeq(rx_stream, k + 1, Len(rx_stream))
    /\ UNCHANGED <<sessionVars, catalogVars, pollHist, strayHist, blockVars,
                   rx_input>>

FramingInit ==
    /\ SessionInit
    /\ CatalogIdle
    /\ BlockIdle
    /\ rx_input \in SeqsUpTo(Symbols, MaxStream)
    /\ rx_stream = rx_input
    /\ rx_buffer = <<>>
    /\ rx_lines = <<>>

FramingNext == \E k \in 0..MaxStream : TransportRx(k)

FramingSpec == FramingInit /\ [][FramingNext]_vars

\* ------------------------------------------------ block map and catalog
Hostnames == {"h1", "h2"}
Versions == {"v1", "v2"}
AliasLists == {<<"device", "A", "B">>, <<"B", "A", "device">>, <<"device", "A">>}

\* Python's order of the alias strings ("A" < "B" < "device").
AliasRank(a) == CASE a = "A" -> 1 [] a = "B" -> 2 [] OTHER -> 3

RECURSIVE Insert(_, _)
Insert(a, l) ==
    IF l = <<>> \/ AliasRank(a) <= AliasRank(Head(l)) THEN <<a>> \o l
    ELSE <<Head(l)>> \o Insert(a, Tail(l))

RECURSIVE InsertionSort(_)
InsertionSort(l) == IF l = <<>> THEN <<>> ELSE Insert(Head(l), InsertionSort(Tail(l)))

\* Mutant: the alias lists are compared as they come.
Sorted_AsIs(l) == l

\* sorted(...)
Sorted(l) == InsertionSort(l)

\* Values of a descriptor's "attributes": None, {} and a record with
\* "version" and "helper"; the helper is an empty dict ("empty"), a
\* non-empty dict ("full") or not a dict ("list").
NullAttr == [kind |-> "null", version |-> "", helper |-> ""]
EmptyDict == [kind |-> "dict0", version |-> "", helper |-> ""]
HelperRecord(v, h) == [kind |-> "dict", version |-> v, helper |-> h]

\* json.dump / json.load of a block map: None is written as null and read
\* back as None; strings and string-keyed objects keep their value.
JsonNull == [kind |-> "json_null", version |-> "", helper |-> ""]
JsonDumpAttr(a) == IF a = NullAttr THEN JsonNull ELSE a
JsonLoadAttr(j) == IF j = JsonNull THEN NullAttr ELSE j
JsonDump(m) ==
    [id \in DOMAIN m |->
        [type |-> m[id].type, attributes |-> JsonDumpAttr(m[id].attributes)]]
JsonLoad(j) ==
    [id \in DOMAIN j |->
        [type |-> j[id].type, attributes |-> JsonLoadAttr(j[id].attributes)]]

NoFile == [state |-> "absent"]
NoBlockMap == [kind |-> "none", map |-> <<>>]
PathBlockMap == [kind |-> "path", map |-> <<>>]
MapBlockMap(m) == [kind |-> "map", map |-> m]

\* The block classes of src/pytesira/block and their VERSION.
ImplementedTypes == {"AudioOutput", "DanteInput", "Ducker", "MuteControl",
                     "NoiseGenerator", "SourceSelector"}
ModuleVersion(type) == IF type = "SourceSelector" THEN "0.2.0" ELSE "0.1.0"

\* importlib.import_module finds pytesira.block.<type>.
HasModule(type) == type \in ImplementedTypes

\* The three asserts of __getDSPBlockMap on a file that could be read.
CacheUsable(f, h, al, v) ==
    /\ f.state = "ok"
    /\ f.hostname = h
    /\ Sorted(f.aliases) = Sorted(al)
    /\ f.pytesira_version = v

\* A reply value is a sequence of space-separated tokens; a token is a stem
\* followed or not by the text `Interface::Attributes`.
Tok(stem, tail) == [stem |-> stem, tail |-> tail]
ErrReply(value) == [type |-> "CMD_ERROR", value |-> value]
OkReply == [type |-> "CMD_OK", value |-> <<Tok("x", "")>>]
AttrTail == "Interface::Attributes"

\* `"::Attributes" not in value`
ContainsAttributes(value) == \E i \in DOMAIN value : value[i].tail = AttrTail

\* Mutant: the type is read from the first token.
BlockType_First(value) == value[1].stem

\* value.split(" ")[-1].strip(), then replace("Interface::Attributes", "")
\* (what is left of the last token is its stem)
BlockType(value) == value[Len(value)].stem

\* `if block_id == "device": continue`
IsDeviceHandle(block_id) == block_id = "device"

ReplyOf(replies, id) == IF id \in DOMAIN replies THEN replies[id] ELSE OkReply

Put(m, id, d) == [k \in (DOMAIN m) \cup {id} |-> IF k = id THEN d ELSE m[k]]

\* The live query loop of __getDSPBlockMap: ok is FALSE when an assert on a
\* reply failed and the exception left the loop.
RECURSIVE Discover(_, _, _)
Discover(al, replies, acc) ==
    IF al = <<>> THEN acc
    ELSE IF IsDeviceHandle(Head(al)) THEN Discover(Tail(al), replies, acc)
    ELSE LET id == Head(al)
             r == ReplyOf(replies, id)
             asked == [acc EXCEPT !.queries = Append(@, id)]
         IN  IF r.type # "CMD_ERROR" THEN [asked EXCEPT !.ok = FALSE]
             ELSE IF ~ContainsAttributes(r.value)
                  THEN Discover(Tail(al), replies, asked)
                  ELSE Discover(Tail(al), replies,
                           [asked EXCEPT !.map = Put(@, id,
                               [type |-> BlockType(r.value),
                                attributes |-> NullAttr])])

\* Replies a device gives to `<id> get BLOCKTYPE`.
Replies == {ErrReply(<<Tok("MuteControl", AttrTail)>>),
            ErrReply(<<Tok("Ducker", ""), Tok("Gate", AttrTail)>>),
            ErrReply(<<Tok("notfound", "")>>),
            ErrReply(<<Tok("Gate", AttrTail), Tok("extra", "")>>),
            OkReply}

NonDevice(al) == {al[i] : i \in DOMAIN al} \ {"device"}

catalogFrame == <<flagVars, command_queue, mboxVars, rx_cmd_mailbox,
                  subscriptions, mainVars, rxpc, workerVars, ppc, callVars,
                  ncalls, deviceVars, callHist, workerHist, rxHist,
                  transportFailed, framingVars, pollHist, strayHist,
                  blockVars>>

\* __getDSPBlockMap, called by connect after the baseline commands: the map
\* of a usable file, or the result of the live query.  An exception of the
\* live query leaves connect.
GetDSPBlockMap ==
    /\ cat_pc = "new"
    /\ IF block_map.kind = "path" /\ CacheUsable(file, hostname, dsp_aliases, version)
       THEN /\ block_map' = MapBlockMap(JsonLoad(file.blocks))
            /\ pre_map' = JsonLoad(file.blocks)
            /\ queries' = <<>>
            /\ type_replies' = <<>>
            /\ cat_pc' = "map"
       ELSE \E replies \in [NonDevice(dsp_aliases) -> Replies] :
                LET d == Discover(dsp_aliases, replies,
                                  [ok |-> TRUE, map |-> <<>>, queries |-> <<>>])
                IN  /\ queries' = d.queries
                    /\ type_replies' = [i \in DOMAIN d.queries |->
                                            replies[d.queries[i]]]
                    /\ IF d.ok
                       THEN /\ block_map' = MapBlockMap(d.map)
                            /\ pre_map' = d.map
                            /\ cat_pc' = "map"
                       ELSE /\ cat_pc' = "failed"
                            /\ UNCHANGED <<block_map, pre_map>>
    /\ UNCHANGED <<catalogFrame, blocks, file, hostname, dsp_aliases, version,
                   skip_block_types, init_helpers, written, saved, nsessions>>

\* Mutant: the helper's version is not compared.
VersionMatches_Any(a, v) == TRUE

\* `block["attributes"]["version"] == block_module_version`
VersionMatches(a, v) == a.version = v

NoHelper == "None"

\* The init helper connect passes to the constructor of a block.
InitHelper(block) ==
    IF /\ block.attributes.kind = "dict"
       /\ VersionMatches(block.attributes, ModuleVersion(block.type))
       /\ block.attributes.helper \in {"empty", "full"}
       /\ block.attributes.helper # "empty"
    THEN block.attributes.helper
    ELSE NoHelper

\* A block constructed without a helper queries its attributes from the
\* device (`assert init_helper is not None`, else __query_base_attributes).
SelfQueries(helper) == helper = NoHelper

\* self._init_helper of a constructed block: a Ducker's is {}.
OwnInitHelper(type) == IF type = "Ducker" THEN "empty" ELSE "full"

\* export_init_helper of a constructed block.
ExportInitHelper(type) == HelperRecord(ModuleVersion(type), OwnInitHelper(type))

\* Mutant: the user's skip list is not looked at.
Skipped_Never(type, skip) == FALSE

\* `getattr(block_module, block_type) in self.__skip_block_types`
Skipped(type, skip) == type \in skip

\* The blocks the loop of connect constructs.
Constructed(m, skip) ==
    {id \in DOMAIN m : HasModule(m[id].type) /\ ~Skipped(m[id].type, skip)}

\* The block loop of connect, then ready.
ConstructBlocks ==
    /\ cat_pc = "map"
    /\ LET m == block_map.map
           built == Constructed(m, skip_block_types)
       IN  /\ blocks' = built
           /\ init_helpers' = [id \in built |-> InitHelper(m[id])]
           /\ block_map' = MapBlockMap(
                  [id \in DOMAIN m |->
                      IF id \in built
                      THEN [type |-> m[id].type,
                            attributes |-> ExportInitHelper(m[id].type)]
                      ELSE m[id]])
    /\ cat_pc' = "ready"
    /\ UNCHANGED <<catalogFrame, file, hostname, dsp_aliases, version,
                   skip_block_types, queries, pre_map, written, saved,
                   nsessions, type_replies>>

\* Paths are sequences of symbols: a name, a blank and the text `.bmap`.
PathSymbols == {"a", " ", ".bmap"}
CfgPath == <<"a", ".bmap">>

\* Mutant: no path is taken to carry the extension already.
EndsWithBmap_Never(output) == FALSE

\* output.endswith(".bmap")
EndsWithBmap(output) == output # <<>> /\ output[Len(output)] = ".bmap"

\* The path save_block_map opens, from the stripped argument (the file
\* system is taken to have no symbolic link at that path, so that
\* os.path.realpath keeps the file's name).
BmapPath(output) == IF EndsWithBmap(output) THEN output ELSE output \o <<".bmap">>

\* `assert self.__block_map`
ActiveBlockMap(bm) == bm.kind = "path" \/ (bm.kind = "map" /\ DOMAIN bm.map # {})

\* Mutant: the file is written without the library version.
SavedVersion_None(v) == ""

SavedVersion(v) == v

\* The object json.dump writes.
SavedFile(h, al, m, v) ==
    [state |-> "ok", hostname |-> h, aliases |-> Sorted(al),
     blocks |-> JsonDump(m), pytesira_version |-> SavedVersion(v)]

\* save_block_map(output).  Before connect has resolved the map, __block_map
\* still holds the configured path: the file is opened (and so emptied) and
\* building the object raises.
SaveBlockMap(output) ==
    /\ cat_pc \in {"new", "ready"}
    /\ Len(written) < MaxSaves
    /\ LET out == Strip(output)
           path == BmapPath(out)
       IN  IF out = <<>> \/ ~ActiveBlockMap(block_map)
           THEN /\ written' = Append2(written, [opened |-> FALSE, path |-> <<>>])
                /\ UNCHANGED <<file, saved>>
           ELSE /\ written' = Append2(written, [opened |-> TRUE, path |-> path])
                /\ IF block_map.kind = "path"
                   THEN /\ file' = IF path = CfgPath THEN NoFile ELSE file
                        /\ saved' = IF saved.state = "yes" /\ saved.path = path
                                    THEN [state |-> "no"]
                                    ELSE saved
                   ELSE /\ file' = IF path = CfgPath
                                   THEN SavedFile(hostname, dsp_aliases,
                                                  block_map.map, version)
                                   ELSE file
                        /\ saved' = [state |-> "yes", path |-> path,
                                     session |-> nsessions,
                                     hostname |-> hostname,
                                     aliases |-> dsp_aliases,
                                     version |-> version,
                                     map |-> block_map.map]
    /\ UNCHANGED <<catalogFrame, blocks, cat_pc, block_map, hostname,
                   dsp_aliases, version, skip_block_types, queries,
                   init_helpers, pre_map, nsessions, type_replies>>

\* The session is closed and a new one is constructed with the configured
\* path and connected: the baseline commands give the device's hostname and
\* aliases, which may have changed, as may the library's version.
NewSession(h, al, v) ==
    /\ cat_pc = "ready"
    /\ nsessions < MaxSessions
    /\ nsessions' = nsessions + 1
    /\ cat_pc' = "new"
    /\ block_map' = PathBlockMap
    /\ hostname' = h
    /\ dsp_aliases' = al
    /\ version' = v
    /\ blocks' = {}
    /\ queries' = <<>>
    /\ init_helpers' = <<>>
    /\ type_replies' = <<>>
    /\ pre_map' = <<>>
    /\ UNCHANGED <<catalogFrame, file, skip_block_types, written, saved>>

\* Descriptors a block map file may hold.
CachedTypes == {"MuteControl", "SourceSelector", "Gate"}
CachedAttrs == {NullAttr, EmptyDict, HelperRecord("0.1.0", "full"),
                HelperRecord("0.2.0", "full"), HelperRecord("0.0.9", "full"),
                HelperRecord("0.1.0", "empty"), HelperRecord("0.1.0", "list")}
Descriptors == [type : CachedTypes, attributes : CachedAttrs]
CachedMaps ==
    UNION {[ids -> Descriptors] : ids \in {{"A"}, {"A", "B"}}}
SkipLists == {{}, {"MuteControl"}}

\* Block map files an earlier session may have left at the configured path.
FileMaps ==
    {[id \in {"A"} |-> [type |-> "MuteControl",
                        attributes |-> HelperRecord("0.1.0", "full")]],
     [id \in {"A", "B"} |-> [type |-> IF id = "A" THEN "MuteControl" ELSE "Gate",
                             attributes |-> NullAttr]]}
Files ==
    {NoFile} \cup
    {[state |-> "ok", hostname |-> h, aliases |-> al, blocks |-> JsonDump(m),
      pytesira_version |-> v] :
        h \in Hostnames, al \in AliasLists, m \in FileMaps, v \in Versions}

\* A session has been constructed, with or without a block map path; the
\* hostname and the aliases are those the baseline commands of its connect
\* obtain from the device.
CatalogInit ==
    /\ SessionInit
    /\ FramingIdle
    /\ BlockIdle
    /\ cat_pc = "new"
    /\ block_map \in {NoBlockMap, PathBlockMap}
    /\ file \in Files
    /\ block_map = NoBlockMap => file = NoFile
    /\ hostname = "h1"
    /\ dsp_aliases \in AliasLists
    /\ version = "v1"
    /\ skip_block_types = {}
    /\ queries = <<>>
    /\ init_helpers = <<>>
    /\ pre_map = <<>>
    /\ written = <<>>
    /\ saved = [state |-> "no"]
    /\ nsessions = 1
    /\ type_replies = <<>>

CatalogNext ==
    \/ GetDSPBlockMap
    \/ ConstructBlocks
    \/ \E output \in SeqsUpTo(PathSymbols, MaxPath) : SaveBlockMap(output)
    \/ \E h \in Hostnames, al \in AliasLists, v \in Versions : NewSession(h, al, v)

CatalogSpec == CatalogInit /\ [][CatalogNext]_vars

\* The block loop of connect on its own: __getDSPBlockMap has returned a
\* map, of a file or of the live query, and the user gave a skip list.
BlocksInit ==
    /\ SessionInit
    /\ FramingIdle
    /\ BlockIdle
    /\ cat_pc = "map"
    /\ \E m \in CachedMaps : block_map = MapBlockMap(m) /\ pre_map = m
    /\ file = NoFile
    /\ hostname = "h1"
    /\ dsp_aliases = <<"device", "A", "B">>
    /\ version = "v1"
    /\ skip_block_types \in SkipLists
    /\ queries = <<>>
    /\ init_helpers = <<>>
    /\ written = <<>>
    /\ saved = [state |-> "no"]
    /\ nsessions = 1
    /\ type_replies = <<>>

BlocksNext == ConstructBlocks

BlocksSpec == BlocksInit /\ [][BlocksNext]_vars


\* ------------------------------------------------------------ block objects
\* One block object from its construction on: the publishes routed to it,
\* the setters called on it, and its construction anew from the helper it
\* exported.  A command of the block is answered by the device with +OK or
\* -ERR (timeouts are the subject of the session specification).
NumChannels == 2    \* channels of a level-and-mute block
NumSources == 2     \* sources of a source selector
MaxRestores == 1    \* constructions of the block from its exported helper

Channels == 1..NumChannels
Sources == 1..NumSources
Bools == {"true", "false"}
Levels == {"-10.0", "-3.5"}
Replies2 == {"OK", "ERR"}

\* A dict key or an attribute that does not exist.
Absent == "absent"

\* DanteInput is a BaseLevelMute; NoiseGenerator and AudioOutput are
\* BaseLevelMuteNoSubscription.
LevelMuteClasses == {"DanteInput", "NoiseGenerator", "AudioOutput"}
NoSubscription(c) == c \in {"NoiseGenerator", "AudioOutput"}
BlockClasses == LevelMuteClasses \cup {"SourceSelector", "Ducker"}

\* The attributes of a Ducker; `atack_time` is the attribute set_attack_time
\* creates.
DuckerFields == {"bypass", "mix_sense", "sense_level", "sense_mute",
                 "threshold", "ducking_level", "attack_time", "release_time",
                 "input_mute", "input_level", "min_input_level",
                 "max_input_level"}
DuckerAttrs == DuckerFields \cup {"atack_time"}

\* What the device reports for a status attribute when it is queried.
DeviceMute == "false"
DeviceLevel == "-10.0"
DeviceStatus == "old"

\* __query_base_attributes, then (blocks without subscription)
\* _query_status_attributes: a channel as the constructor leaves it.
QueriedChannel(c) ==
    [muted |-> IF NoSubscription(c) THEN DeviceMute ELSE Absent,
     level |-> IF NoSubscription(c) THEN DeviceLevel ELSE Absent,
     inverted |-> IF c = "AudioOutput" THEN DeviceMute ELSE Absent,
     label |-> "label", min |-> "-100.0", max |-> "12.0"]

\* SourceSelector.__query_attributes: no source selected, no current level;
\* __output_level is not assigned.
QueriedSource == [selected |-> "false", level |-> Absent]

\* Ducker.__query_status_attributes
QueriedDucker == [a \in DuckerAttrs |-> IF a = "atack_time" THEN Absent
                                        ELSE DeviceStatus]

\* The object after the queries and the subscriptions of its constructor,
\* before the constructor assigns _init_helper.
QueriedBlock(c) ==
    [class |-> c, pc |-> "constructing", gen |-> 0,
     channels |-> IF c \in LevelMuteClasses
                  THEN [i \in Channels |-> QueriedChannel(c)] ELSE <<>>,
     sources |-> IF c = "SourceSelector"
                 THEN [i \in Sources |-> QueriedSource] ELSE <<>>,
     selected_source |-> 0,
     muted |-> IF c = "SourceSelector" THEN DeviceMute ELSE Absent,
     output_level |-> Absent,
     duck |-> IF c = "Ducker" THEN QueriedDucker ELSE <<>>]

\* self._init_helper as the constructor builds it: the channels and the
\* sources are the block's own dicts, not copies.
OwnHelper(b) ==
    [class |-> b.class,
     channels |-> b.channels,
     sources |-> b.sources,
     output_level |-> b.output_level]

\* __load_init_helper, then the status queries of the constructor (blocks
\* without subscription, Ducker).
RestoredChannel(c, ch) ==
    [muted |-> IF NoSubscription(c) THEN DeviceMute ELSE ch.muted,
     level |-> IF NoSubscription(c) THEN DeviceLevel ELSE ch.level,
     inverted |-> IF c = "AudioOutput" THEN DeviceMute ELSE ch.inverted,
     label |-> ch.label, min |-> ch.min, max |-> ch.max]

RestoredBlock(h, g) ==
    [class |-> h.class, pc |-> "constructing", gen |-> g,
     channels |-> IF h.class \in LevelMuteClasses
                  THEN [i \in Channels |-> RestoredChannel(h.class, h.channels[i])]
                  ELSE <<>>,
     sources |-> h.sources,
     selected_source |-> 0,
     muted |-> IF h.class = "SourceSelector" THEN "false" ELSE Absent,
     output_level |-> h.output_level,
     duck |-> IF h.class = "Ducker" THEN QueriedDucker ELSE <<>>]

\* The record of a call: the attribute and the channel slot of the command
\* that was sent (-1: no slot), the device's reply, and whether the call
\* returned the reply or raised.
Call(op, attr, value, channel, reply, outcome) ==
    [op |-> op, attr |-> attr, value |-> value, channel |-> channel,
     reply |-> reply, outcome |-> outcome]

blockFrame == <<sessionVars, framingVars, catalogVars, pollHist, strayHist,
                exported>>

\* The constructor assigns _init_helper and returns; connect stores what
\* export_init_helper gives.  A SourceSelector built by query has no
\* __output_level unless an outputLevel publish has set it: reading it
\* raises and the exception leaves the constructor.
ConstructDone ==
    /\ blk.class \in BlockClasses
    /\ blk.pc = "constructing"
    /\ IF blk.class = "SourceSelector" /\ blk.output_level = Absent
       THEN /\ blk' = [blk EXCEPT !.pc = "failed"]
            /\ UNCHANGED exported
       ELSE /\ blk' = [blk EXCEPT !.pc = "live"]
            /\ exported' = OwnHelper(blk)
    /\ last' = NoCall
    /\ UNCHANGED <<sessionVars, framingVars, catalogVars, pollHist, strayHist>>

\* A later session constructs the block from the helper of the block map.
Restore ==
    /\ blk.class \in BlockClasses
    /\ blk.pc = "live"
    /\ blk.gen < MaxRestores
    /\ blk' = RestoredBlock(exported, blk.gen + 1)
    /\ last' = NoCall
    /\ UNCHANGED blockFrame

\* The values a `mutes` or a `levels` publish carries: one per position,
\* fewer or more positions than the block has channels included.
Vectors(S) == UNION {[1..n -> S] : n \in 0..(NumChannels + 1)}

\* The record of a publish that carried a vector of values.
VectorCall(attr, vec) ==
    [vec |-> vec] @@ Call("publish", attr, "", -1, "", "returned")

\* Mutant: position i of the vector is taken as channel i - 1.
PublishMutes_ZeroBased(vec) ==
    /\ blk.class = "DanteInput"
    /\ blk.pc \in {"constructing", "live"}
    /\ blk' = [blk EXCEPT !.channels =
                  [i \in DOMAIN blk.channels |->
                      IF i + 1 \in DOMAIN vec
                      THEN [blk.channels[i] EXCEPT !.muted = vec[i + 1]]
                      ELSE blk.channels[i]]]
    /\ last' = VectorCall("mutes", vec)
    /\ UNCHANGED blockFrame

\* BaseLevelMute.subscription_callback, mutes: position i (from 0) of the
\* value is channel i + 1; a position that is not a channel of the block is
\* logged and left.
PublishMutes(vec) ==
    /\ blk.class = "DanteInput"
    /\ blk.pc \in {"constructing", "live"}
    /\ blk' = [blk EXCEPT !.channels =
                  [i \in DOMAIN blk.channels |->
                      IF i \in DOMAIN vec
                      THEN [blk.channels[i] EXCEPT !.muted = vec[i]]
                      ELSE blk.channels[i]]]
    /\ last' = VectorCall("mutes", vec)
    /\ UNCHANGED blockFrame

\* BaseLevelMute.subscription_callback, levels: the same for the current
\* level, the `current` key of the channel's level dict.
PublishLevels(vec) ==
    /\ blk.class = "DanteInput"
    /\ blk.pc \in {"constructing", "live"}
    /\ blk' = [blk EXCEPT !.channels =
                  [i \in DOMAIN blk.channels |->
                      IF i \in DOMAIN vec
                      THEN [blk.channels[i] EXCEPT !.level = vec[i]]
                      ELSE blk.channels[i]]]
    /\ last' = VectorCall("levels", vec)
    /\ UNCHANGED blockFrame

\* Block._set_and_update_val: the value to store and the Response.  A
\* successful reply gives the value that was set; an Error is handed back
\* with the local value left as it is.
SetAndUpdateVal(value, current, reply) ==
    [value |-> IF reply = "OK" THEN value ELSE current, res |-> reply]

\* `self.channels[str(channel)]` finds the channel.
HasChannel(b, channel) == channel \in DOMAIN b.channels

\* set_mute / set_level / set_invert of a level-and-mute block.  With
\* subscription the setter returns the Response and stores nothing; without,
\* the command is sent first and the value is stored under the channel's
\* key, which raises KeyError when there is no such key.
ChannelSetter(op, attr, field, value, channel, reply) ==
    /\ blk.class \in LevelMuteClasses
    /\ blk.pc = "live"
    /\ op = "set_invert" => blk.class = "AudioOutput"
    /\ IF ~NoSubscription(blk.class)
       THEN /\ UNCHANGED blk
            /\ last' = Call(op, attr, value, channel, reply, "returned")
       ELSE IF ~HasChannel(blk, channel)
       THEN /\ UNCHANGED blk
            /\ last' = Call(op, attr, value, channel, reply, "raised")
       ELSE /\ blk' = [blk EXCEPT !.channels[channel][field] =
                          SetAndUpdateVal(value, @, reply).value]
            /\ last' = Call(op, attr, value, channel, reply, "returned")
    /\ UNCHANGED blockFrame

SetMute(value, channel, reply) ==
    ChannelSetter("set_mute", "mute", "muted", value, channel, reply)

SetLevel(value, channel, reply) ==
    ChannelSetter("set_level", "level", "level", value, channel, reply)

\* AudioOutput.set_invert sends the attribute `level`.
SetInvert(value, channel, reply) ==
    ChannelSetter("set_invert", "level", "inverted", value, channel, reply)

SelectorListening ==
    /\ blk.class = "SourceSelector"
    /\ blk.pc \in {"constructing", "live"}

\* SourceSelector.subscription_callback, outputMute
PublishOutputMute(value) ==
    /\ SelectorListening
    /\ blk' = [blk EXCEPT !.muted = value]
    /\ last' = Call("publish", "outputMute", value, -1, "", "returned")
    /\ UNCHANGED blockFrame

\* SourceSelector.subscription_callback, outputLevel
PublishOutputLevel(value) ==
    /\ SelectorListening
    /\ blk' = [blk EXCEPT !.output_level = value]
    /\ last' = Call("publish", "outputLevel", value, -1, "", "returned")
    /\ UNCHANGED blockFrame

\* SourceSelector.subscription_callback, sourceSelection: the selected
\* source and the flag of every source.
PublishSourceSelection(k) ==
    /\ SelectorListening
    /\ blk' = [blk EXCEPT
                  !.selected_source = k,
                  !.sources = [i \in Sources |->
                      [blk.sources[i] EXCEPT
                          !.selected = IF i = k THEN "true" ELSE "false"]]]
    /\ last' = Call("publish", "sourceSelection", "", k, "", "returned")
    /\ UNCHANGED blockFrame

\* SourceSelector.subscription_callback, sourceLevel: an index that is not a
\* source reaches the logging call that names `idx`, a name that is not
\* defined, and the callback raises NameError.
PublishSourceLevel(ch, value) ==
    /\ SelectorListening
    /\ IF ch \in DOMAIN blk.sources
       THEN /\ blk' = [blk EXCEPT !.sources[ch].level = value]
            /\ last' = Call("publish", "sourceLevel", value, ch, "", "returned")
       ELSE /\ UNCHANGED blk
            /\ last' = Call("publish", "sourceLevel", value, ch, "", "raised")
    /\ UNCHANGED blockFrame

\* The property setters of SourceSelector (muted, selected_source,
\* output_level): nothing is stored; a reply that is not OK raises
\* ValueError.
SelectorSetter(op, attr, value, k, reply) ==
    /\ blk.class = "SourceSelector"
    /\ blk.pc = "live"
    /\ UNCHANGED blk
    /\ last' = Call(op, attr, value, k, reply,
                    IF reply = "OK" THEN "returned" ELSE "raised")
    /\ UNCHANGED blockFrame

SetMuted(value, reply) ==
    SelectorSetter("muted", "outputMute", value, -1, reply)

SetSelectedSource(k, reply) ==
    SelectorSetter("selected_source", "sourceSelection", "", k, reply)

SetOutputLevel(value, reply) ==
    SelectorSetter("output_level", "outputLevel", value, -1, reply)

\* SourceSelector.set_source_level returns the Response.
SetSourceLevel(source, value, reply) ==
    /\ blk.class = "SourceSelector"
    /\ blk.pc = "live"
    /\ UNCHANGED blk
    /\ last' = Call("set_source_level", "sourceLevel", value, source, reply,
                    "returned")
    /\ UNCHANGED blockFrame

\* The attribute a Ducker setter assigns the result to.
DuckerTarget(field) ==
    IF field = "attack_time" THEN "atack_time"
    ELSE IF field \in {"input_mute", "input_level", "min_input_level",
                       "max_input_level"} THEN "release_time"
    ELSE field

\* Ducker.set_<field>
DuckerSetter(field, reply) ==
    /\ blk.class = "Ducker"
    /\ blk.pc = "live"
    /\ blk' = [blk EXCEPT !.duck[DuckerTarget(field)] =
                  SetAndUpdateVal("new", @, reply).value]
    /\ last' = Call("set_" \o field, field, "new", -1, reply, "returned")
    /\ UNCHANGED blockFrame

BlockInit ==
    /\ SessionInit /\ FramingIdle /\ CatalogIdle
    /\ blk \in {QueriedBlock(c) : c \in BlockClasses}
    /\ exported = NoBlock
    /\ last = NoCall

BlockNext ==
    \/ ConstructDone
    \/ Restore
    \/ \E vec \in Vectors(Bools) : PublishMutes(vec)
    \/ \E vec \in Vectors(Levels) : PublishLevels(vec)
    \/ \E v \in Bools, c \in 0..NumChannels, r \in Replies2 : SetMute(v, c, r)
    \/ \E v \in Levels, c \in 0..NumChannels, r \in Replies2 : SetLevel(v, c, r)
    \/ \E v \in Bools, c \in 0..NumChannels, r \in Replies2 : SetInvert(v, c, r)
    \/ \E v \in Bools : PublishOutputMute(v)
    \/ \E v \in Levels : PublishOutputLevel(v)
    \/ \E k \in 0..NumSources : PublishSourceSelection(k)
    \/ \E ch \in 1..(NumSources + 1), v \in Levels : PublishSourceLevel(ch, v)
    \/ \E v \in Bools, r \in Replies2 : SetMuted(v, r)
    \/ \E k \in 0..NumSources, r \in Replies2 : SetSelectedSource(k, r)
    \/ \E v \in Levels, r \in Replies2 : SetOutputLevel(v, r)
    \/ \E k \in Sources, v \in Levels, r \in Replies2 : SetSourceLevel(k, v, r)
    \/ \E f \in DuckerFields, r \in Replies2 : DuckerSetter(f, r)

BlockSpec == BlockInit /\ [][BlockNext]_vars

\* --------------------------------------------- SourceSelector attributes
\* SourceSelector.__query_attributes as a function of what the device
\* reports: the object before the queries holds nothing but the reports it
\* is going to receive.
MaxInputs == 6      \* numInputs the device reports
MaxOutputs == 4     \* numOutputs the device reports

DeviceReports ==
    [stereoEnable : Bools, numInputs : 0..MaxInputs,
     numOutputs : 0..MaxOutputs, outputMute : Bools]

\* Mutant: the reported number is taken as it is.
SourceCount_Reported(stereo, n) == n

\* `if self.stereo: self.num_input = int(self.num_input // 2)`
SourceCount(stereo, n) == IF stereo = "true" THEN n \div 2 ELSE n

\* self.sources[str(i)]
QueriedSourceAt(i) ==
    [index |-> i, selected |-> QueriedSource.selected,
     level |-> QueriedSource.level]

QueryAttributes ==
    /\ blk.pc = "querying"
    /\ blk' = [class |-> blk.class, pc |-> "queried", device |-> blk.device,
               stereo |-> blk.device.stereoEnable,
               num_input |-> SourceCount(blk.device.stereoEnable,
                                         blk.device.numInputs),
               num_output |-> SourceCount(blk.device.stereoEnable,
                                          blk.device.numOutputs),
               muted |-> blk.device.outputMute,
               selected_source |-> 0,
               sources |-> [i \in 1..SourceCount(blk.device.stereoEnable,
                                                 blk.device.numInputs)
                              |-> QueriedSourceAt(i)]]
    /\ UNCHANGED <<blockFrame, last>>

QueryInit ==
    /\ SessionInit /\ FramingIdle /\ CatalogIdle
    /\ blk \in {[class |-> "SourceSelector", pc |-> "querying", device |-> d] :
                   d \in DeviceReports}
    /\ exported = NoBlock
    /\ last = NoCall

QueryNext == QueryAttributes

QuerySpec == QueryInit /\ [][QueryNext]_vars

\* ------------------------------------------------------------- properties
Sent == Range(sentLog)

\* The reply line of command id has been taken off the transport by the rx loop.
ReplyReceived(id) ==
    /\ id \in Sent
    /\ id \notin Range(devPending)
    /\ \A i \in DOMAIN wire : wire[i].of # id

\* Commands sent that have neither received their reply nor timed out.
Outstanding == {id \in Sent : id \notin wTimedOut /\ ~ReplyReceived(id)}

\* C1: at most one command is outstanding on the transport at any instant:
\* no command is sent while an earlier one has neither received its reply
\* nor timed out.
C1_AtMostOneOutstanding == Cardinality(Outstanding) <= 1

\* One command is outstanding while the submission of another thread waits
\* behind it in the queue.
C1_Witness ==
    /\ ready
    /\ Outstanding = {wcur.id}
    /\ command_queue # <<>>
    /\ \E t \in Threads : cst[t] = "wait" /\ cid[t] = command_queue[1].id

\* C2: commands are executed in submission order: the sequence of send calls
\* is the sequence in which the commands were queued (as far as it got).
C2_SendOrderIsPutOrder == IsPrefix(sentLog, putLog)

\* Two submissions were pending at once and the first of them has been sent.
C2_Witness ==
    /\ ready
    /\ wpc = "wait"
    /\ command_queue # <<>>
    /\ Len(sentLog) >= 2
    /\ \E t \in Threads : cst[t] = "wait" /\ cid[t] = wcur.id
    /\ \E t \in Threads : cst[t] = "wait" /\ cid[t] = command_queue[1].id

\* The serializer hands every handle the device's reply to that handle's own
\* command (positional correlation on the transport).
SerializerCorrelation == \A i \in DOMAIN delivered : delivered[i].of = delivered[i].id

\* C3: reply correlation: the response returned to the caller of a command is
\* the device's reply to that command.
C3_ReplyCorrelation ==
    (failed = {} /\ wTimedOut = {} /\ transportFailed = "no") =>
        \A r \in returned : r.of = r.id

\* Publishes taken off the transport by the rx loop.
PublishOnWire(n) == \E i \in DOMAIN wire : wire[i].kind = "PUB" /\ wire[i].n = n
PublishTaken == {n \in 1..npub : ~PublishOnWire(n)}
CallsFor(n) == {i \in DOMAIN cb_log : cb_log[i].n = n}

\* C5: a publish whose token is registered to block X causes exactly one call
\* of X.subscription_callback, and no other block's callback is called.
C5_PublishRouting ==
    /\ \A n \in PublishTaken \ unknownPubs : Cardinality(CallsFor(n)) = 1
    /\ \A n \in unknownPubs : CallsFor(n) = {}
    /\ \A i \in DOMAIN cb_log :
          /\ cb_log[i].token \in DOMAIN subscriptions.map
          /\ cb_log[i].block = subscriptions.map[cb_log[i].token]
          /\ cb_log[i].token = TokenOf(cb_log[i].block)

\* A publish for B1's token was routed while B2's token was registered too.
C5_Witness ==
    /\ DOMAIN subscriptions.map = {"t1", "t2"}
    /\ \E i \in DOMAIN cb_log : cb_log[i].token = "t1" /\ cb_log[i].block = "B1"

\* C6: after a command timed out the serializer keeps running (until the
\* exit flag is set), so that the next submitted command is still sent.
C6_SerializerSurvivesTimeout ==
    (wTimedOut # {} /\ ~exit) => wpc \in {"check", "get", "wait"}

\* C7: when the worker has exited on the exit flag, it has completed every
\* submission that was pending when the flag was set: none of them is left
\* in the command queue.
C7_DrainOnExit ==
    wpc = "done" =>
        \A i \in DOMAIN command_queue : command_queue[i].id \notin pendingAtExit

\* C9: a publish without a registry entry is dropped and the receive loop
\* keeps running.
C9_UnknownTokenDropped == unknownPubs # {} => rxpc # "dead"

\* C10: once a transport failure on send has been surfaced to the in-flight
\* submitter, the session has marked itself not-ready.
C10_NotReadyAfterTransportFailure ==
    (transportFailed = "send" /\ wcur.id \in failed) => ~ready

\* Every publish is handed to a callback at most once and every command's
\* response is delivered to its handle at most once.
AtMostOnce ==
    /\ \A n \in 1..npub : Cardinality(CallsFor(n)) <= 1
    /\ \A i, j \in DOMAIN delivered : delivered[i].id = delivered[j].id => i = j

\* The rx loop takes a publish with a registered token off the transport.
TakesRegisteredPublish ==
    /\ wire # <<>>
    /\ Head(wire).kind = "PUB"
    /\ subscriptions.created
    /\ Head(wire).token \in DOMAIN subscriptions.map
    /\ wire' = Tail(wire)

\* C4: while a command waits for its reply, a publish is routed to its
\* subscriber and does not end the wait; the wait ends only with the next
\* OK / ERR line, which is delivered to the command's handle, or with the
\* timeout; publish and reply are each delivered once.
C4_PublishDuringWait ==
    [][ /\ (wpc = "wait" /\ TakesRegisteredPublish) =>
              /\ wpc' = "wait"
              /\ wcur' = wcur
              /\ rx_cmd_mailbox' = rx_cmd_mailbox
              /\ cb_log' = Append2(cb_log,
                     [block |-> subscriptions.map[Head(wire).token],
                      token |-> Head(wire).token,
                      n |-> Head(wire).n,
                      waiting |-> TRUE])
        /\ (wpc = "wait" /\ wpc' # "wait") =>
              \/ /\ rx_cmd_mailbox.kind \in {"OK", "ERR"}
                 /\ delivered' = Append2(delivered,
                        [id |-> wcur.id, of |-> rx_cmd_mailbox.of])
                 /\ rx_cmd_mailbox = (IF wcur.handle = "dsp"
                                        THEN sync_cmd_mailbox'
                                        ELSE block_mailbox'[wcur.handle])
              \/ /\ wpc' = "dead"
                 /\ wTimedOut' = wTimedOut \cup {wcur.id}
        /\ AtMostOnce'
      ]_vars

\* A publish was routed while a command waited for its reply, and every
\* command that was sent, that one included, had its own reply delivered.
C4_Witness ==
    /\ \E i \in DOMAIN cb_log : cb_log[i].waiting
    /\ wTimedOut = {}
    /\ wpc # "wait"
    /\ Len(delivered) = Len(sentLog)
    /\ \A j \in DOMAIN delivered : delivered[j].of = delivered[j].id

\* C8: after close() has been called on a connected session the rx loop, the
\* worker and the poller end, close() returns, and no submitter keeps waiting.
C8_Shutdown ==
    (mainpc = "close_exit") ~>
        (/\ mainpc = "closed"
         /\ Ended(rxpc) /\ Ended(wpc) /\ Ended(ppc)
         /\ \A t \in Threads : cst[t] # "wait")

\* close() was called while a command was pending and has returned: the three
\* threads have ended, the pending submit has failed and nobody is waiting.
C8_Witness ==
    /\ mainpc = "closed"
    /\ Ended(rxpc) /\ Ended(wpc) /\ Ended(ppc)
    /\ \E id \in pendingAtExit : id \in failed
    /\ \A t \in Threads : cst[t] # "wait"

\* The complete lines of a text, in order.
RECURSIVE SplitLines(_)
SplitLines(text) ==
    LET pos == Find(text, 1)
    IN  IF pos = 0 THEN <<>>
        ELSE <<SubSeq(text, 1, pos - 1)>> \o SplitLines(SubSeq(text, pos + 1, Len(text)))

BeginsWithPrefix(l) == Strip(l) # <<>> /\ Head(Strip(l)) \in {"+OK", "-ERR", "!"}

\* The lines of the input that begin with `+OK`, `-ERR` or `!`, trimmed.
RECURSIVE PrefixedLines(_)
PrefixedLines(ls) ==
    IF ls = <<>> THEN <<>>
    ELSE (IF BeginsWithPrefix(Head(ls)) THEN <<Strip(Head(ls))>> ELSE <<>>)
         \o PrefixedLines(Tail(ls))

NonDeviceSeq(al) == SelectSeq(al, LAMBDA a : a # "device")

\* The file's three identity fields agree with the live device and library.
SameIdentity(f, h, al, v) ==
    /\ f.hostname = h
    /\ InsertionSort(f.aliases) = InsertionSort(al)
    /\ f.pytesira_version = v

\* C12: the block map file is used only if a path is configured, the file
\* can be read and its hostname, sorted aliases and library version equal
\* the live ones; then the map is the file's and nothing is queried.  In
\* every other case nothing of the file is kept: the live query runs over
\* the aliases and every descriptor of the resulting map has no attributes.
C12_CacheInvalidation ==
    [][(cat_pc = "new" /\ cat_pc' # "new") =>
          IF /\ block_map.kind = "path"
             /\ file.state = "ok"
             /\ SameIdentity(file, hostname, dsp_aliases, version)
          THEN /\ cat_pc' = "map"
               /\ pre_map' = JsonLoad(file.blocks)
               /\ queries' = <<>>
          ELSE /\ queries' # <<>>
               /\ IsPrefix(queries', NonDeviceSeq(dsp_aliases))
               /\ cat_pc' = "map" =>
                      /\ queries' = NonDeviceSeq(dsp_aliases)
                      /\ \A id \in DOMAIN pre_map' :
                             pre_map'[id].attributes = NullAttr]_vars

\* A file whose hostname and aliases agree but whose library version is
\* another one was rejected: both aliases were queried and no helper of the
\* file is in the map.
C12_Witness ==
    /\ cat_pc = "map"
    /\ file.state = "ok"
    /\ file.hostname = hostname
    /\ Sorted(file.aliases) = Sorted(dsp_aliases)
    /\ file.aliases # dsp_aliases
    /\ file.pytesira_version # version
    /\ file.blocks["A"].attributes = HelperRecord("0.1.0", "full")
    /\ queries = <<"A", "B">>
    /\ pre_map["A"].attributes = NullAttr

\* The block-id-to-type map of a block map.
TypeMap(m) == [id \in DOMAIN m |-> m[id].type]

\* C13: once a connected session has saved its block map to the configured
\* path, a later session that connects with that path to a device of the
\* same hostname, aliases and library version issues no block type query
\* and resolves the same block-id-to-type map.
C13_CacheRoundTrip ==
    (/\ cat_pc # "new"
     /\ saved.state = "yes"
     /\ saved.session < nsessions
     /\ saved.path = CfgPath
     /\ hostname = saved.hostname
     /\ dsp_aliases = saved.aliases
     /\ version = saved.version) =>
        /\ cat_pc # "failed"
        /\ queries = <<>>
        /\ TypeMap(pre_map) = TypeMap(saved.map)

\* The first session discovered block A as a Gate and B as a MuteControl
\* (no file held that) and saved; the second session is connected from the
\* file without a query.
C13_Witness ==
    /\ nsessions = 2
    /\ cat_pc = "ready"
    /\ saved.state = "yes"
    /\ saved.session = 1
    /\ saved.path = CfgPath
    /\ hostname = saved.hostname
    /\ dsp_aliases = saved.aliases
    /\ version = saved.version
    /\ queries = <<>>
    /\ TypeMap(pre_map) = [id \in {"A", "B"} |->
                              IF id = "A" THEN "Gate" ELSE "MuteControl"]
    /\ blocks = {"B"}

\* The blocks that were constructed from a cached helper, and those that
\* queried their attributes from the device.
BuiltFromHelper == {id \in DOMAIN init_helpers : ~SelfQueries(init_helpers[id])}
QueriedDevice == {id \in DOMAIN init_helpers : SelfQueries(init_helpers[id])}

\* C14: a constructor receives the cached helper only if the cached
\* attributes are a record whose version is the VERSION of the block's type
\* and whose helper is a non-empty dict; every other constructed block, one
\* of another cached version among them, gets no helper and queries the
\* device.
C14_HelperVersionGating ==
    cat_pc = "ready" =>
        /\ BuiltFromHelper \cup QueriedDevice = blocks
        /\ \A id \in blocks :
              LET a == pre_map[id].attributes
                  v == IF pre_map[id].type = "SourceSelector" THEN "0.2.0"
                       ELSE "0.1.0"
              IN  IF a.kind = "dict" /\ a.version = v /\ a.helper = "full"
                  THEN id \in BuiltFromHelper /\ init_helpers[id] = a.helper
                  ELSE id \in QueriedDevice

\* Block A's cached helper is of the version of a MuteControl and was
\* passed; block B's is of that version too, but B is a SourceSelector, of
\* another version, and was constructed without it.
C14_Witness ==
    /\ cat_pc = "ready"
    /\ blocks = {"A", "B"}
    /\ pre_map["A"] = [type |-> "MuteControl",
                       attributes |-> HelperRecord("0.1.0", "full")]
    /\ pre_map["B"] = [type |-> "SourceSelector",
                       attributes |-> HelperRecord("0.1.0", "full")]
    /\ "A" \in BuiltFromHelper
    /\ "B" \in QueriedDevice

\* Query i was answered with an Error whose last token is
\* `<T>Interface::Attributes`.
NamesType(i) ==
    /\ type_replies[i].type = "CMD_ERROR"
    /\ type_replies[i].value[Len(type_replies[i].value)].tail = AttrTail

\* Every alias but `device` was queried once, in order, and every reply that
\* names a type gave a descriptor of that type without attributes.
DiscoveryAsSpecified ==
    /\ queries = NonDeviceSeq(dsp_aliases)
    /\ \A i \in DOMAIN queries :
          NamesType(i) =>
              /\ queries[i] \in DOMAIN pre_map
              /\ pre_map[queries[i]] =
                     [type |-> type_replies[i].value[Len(type_replies[i].value)].stem,
                      attributes |-> NullAttr]

\* C15: when the live query has run, every alias except `device` was
\* queried exactly once (never `device`), and a reply whose last token is
\* `<T>Interface::Attributes` gave the block the type T and attributes null.
C15_Discovery ==
    (cat_pc # "new" /\ queries # <<>>) => DiscoveryAsSpecified

\* The same for a live query that came to its end.
DiscoveryWhenCompleted ==
    (cat_pc \in {"map", "ready"} /\ queries # <<>>) => DiscoveryAsSpecified

\* `-ERR Ducker GateInterface::Attributes` was the reply for A: A is a Gate.
DiscoveryWitness ==
    /\ cat_pc = "map"
    /\ queries = <<"A", "B">>
    /\ type_replies[1] = ErrReply(<<Tok("Ducker", ""), Tok("Gate", AttrTail)>>)
    /\ pre_map["A"] = [type |-> "Gate", attributes |-> NullAttr]

\* C16: with the transport ready and the baseline commands answered, connect
\* does not fail: a block whose type query got an unexpected reply is
\* skipped.
C16_ConnectSurvivesBadBlock == cat_pc # "failed"

\* The ids of a map whose type has a block class and is not in the skip list.
Loadable(m, skip) ==
    {id \in DOMAIN m : m[id].type \in ImplementedTypes /\ m[id].type \notin skip}

\* C17: after connect the live catalog holds exactly the ids of the block
\* map whose type is implemented and not skipped; the entry of every other
\* id is as it was, and the attributes of every instantiated block are the
\* helper that block exports.
C17_LiveCatalog ==
    cat_pc = "ready" =>
        /\ blocks = Loadable(pre_map, skip_block_types)
        /\ DOMAIN block_map.map = DOMAIN pre_map
        /\ \A id \in DOMAIN pre_map \ blocks : block_map.map[id] = pre_map[id]
        /\ \A id \in blocks :
              /\ block_map.map[id].type = pre_map[id].type
              /\ block_map.map[id].attributes = ExportInitHelper(pre_map[id].type)

\* A is of a skipped type: it is not in the catalog and its entry, a stale
\* helper, is kept.  B was instantiated and its entry holds what it exports.
C17_Witness ==
    /\ cat_pc = "ready"
    /\ skip_block_types = {"MuteControl"}
    /\ pre_map["A"] = [type |-> "MuteControl",
                       attributes |-> HelperRecord("0.0.9", "full")]
    /\ DOMAIN pre_map = {"A", "B"}
    /\ pre_map["B"] = [type |-> "SourceSelector", attributes |-> NullAttr]
    /\ blocks = {"B"}
    /\ block_map.map["A"] = pre_map["A"]
    /\ block_map.map["B"].attributes = HelperRecord("0.2.0", "full")

C19_DeviceCommand ==
    [][/\ (cst["u1"] = "none" /\ cst'["u1"] = "put" /\ chandle'["u1"] = "dsp")
              => ready
       /\ (cst["u1"] = "put" /\ cst'["u1"] = "wait" /\ chandle["u1"] = "dsp")
              => /\ Len(command_queue') = Len(command_queue) + 1
                 /\ command_queue'[Len(command_queue')].handle = "dsp"
       /\ (/\ cst["u1"] = "wait" /\ chandle["u1"] = "dsp"
           /\ returned' # returned
           /\ cid'["u1"] = 0
           /\ failed' = {} /\ wTimedOut' = {} /\ transportFailed' = "no")
              => \A r \in returned' \ returned : r.of = r.id]_vars

\* The part of C19 about the ready flag and the handle, on its own.
DeviceCommandRequiresReady ==
    [][/\ (cst["u1"] = "none" /\ cst'["u1"] = "put" /\ chandle'["u1"] = "dsp")
              => ready
       /\ (cst["u1"] = "put" /\ cst'["u1"] = "wait" /\ chandle["u1"] = "dsp")
              => /\ Len(command_queue') = Len(command_queue) + 1
                 /\ command_queue'[Len(command_queue')].handle = "dsp"]_vars

\* The live blocks that registered a subscription when they were constructed.
Subscribers ==
    {b \in blocks : TokenOf(b) \in DOMAIN subscriptions.map
                    /\ subscriptions.map[TokenOf(b)] = b}

\* C20: at the end of every poller cycle the subscriptions of every live
\* block that registered some during construction have been registered
\* again.
C20_Resubscription ==
    [][(ppc = "network" /\ ppc' = "check") => Subscribers \subseteq resubscribed']_vars

\* C21: a failed query of the poller is not fatal to it: the poller thread
\* never ends by an exception, so that it goes on with its cycles until the
\* exit flag is set.
C21_PollerSurvivesFailure == ppc # "dead"


\* The step is a call of set_level or set_mute of a level-and-mute block.
LevelMuteCall == last'.op \in {"set_level", "set_mute"}

LevelMuteField == IF last'.op = "set_level" THEN "level" ELSE "muted"

\* C22: write-through: when set_level(v, c) or set_mute(v, c) of a
\* level-and-mute block is answered OK, the setter returns the Response, the
\* block's value of channel c is v when it returns, and no other channel has
\* changed.
C22_WriteThrough ==
    [][(LevelMuteCall /\ last'.reply = "OK" /\ last'.channel \in Channels)
         => /\ last'.outcome = "returned"
            /\ blk'.channels[last'.channel][LevelMuteField] = last'.value
            /\ \A i \in Channels \ {last'.channel} :
                   blk'.channels[i] = blk.channels[i]]_vars

\* The step is a call of a setter of the block.
SetterCall == last'.op \notin {"none", "publish"}

\* The step is a call of a channel setter with the wildcard channel 0.
WildcardCall ==
    /\ last'.op \in {"set_mute", "set_level", "set_invert"}
    /\ last'.channel = 0

\* C23: a protocol error is delivered, not thrown: a block setter the device
\* answers with -ERR returns the Error Response without raising and leaves
\* the block's local state as it was (every setter, those of SourceSelector
\* included).
C23_ErrorDelivered ==
    [][(SetterCall /\ ~WildcardCall /\ last'.reply = "ERR")
         => (last'.outcome = "returned" /\ blk' = blk)]_vars

\* C24: wildcard channel: a channel setter called with channel 0 on a
\* level-and-mute block, with or without subscription, has sent its command
\* with 0 in the channel slot and returns the device's Response without
\* raising.
C24_WildcardChannel ==
    [][WildcardCall => last'.outcome = "returned"]_vars

\* C25: selection consistency: in every state of a constructed
\* SourceSelector, built by query or from a helper and after any publishes,
\* a source has its selected flag exactly when its index is selected_source,
\* so that at most one source is selected and none when selected_source is 0.
C25_SelectionConsistency ==
    (blk.class = "SourceSelector" /\ blk.pc = "live")
        => \A i \in Sources :
               (blk.sources[i].selected = "true") <=> (i = blk.selected_source)

\* The Ducker field a setter is named after (the op is "set_" and the name).
NamedField(op) == CHOOSE f \in DuckerFields : op = "set_" \o f

\* C26: a Ducker setter set_X that is answered OK assigns the new value to
\* the field X of the block and leaves every other field of the Ducker
\* unchanged.
C26_DuckerSetterField ==
    [][(blk.class = "Ducker" /\ SetterCall /\ last'.reply = "OK")
         => /\ blk'.duck[NamedField(last'.op)] = last'.value
            /\ \A a \in DuckerAttrs \ {NamedField(last'.op)} :
                   blk'.duck[a] = blk.duck[a]]_vars

\* The helper holds no status attribute: no mute state, current level or
\* invert flag of a channel, no selected flag or current level of a source,
\* no output level.
NoStatus(h) ==
    /\ h.output_level = Absent
    /\ \A i \in DOMAIN h.channels :
           /\ h.channels[i].muted = Absent
           /\ h.channels[i].level = Absent
           /\ h.channels[i].inverted = Absent
    /\ \A i \in DOMAIN h.sources :
           /\ h.sources[i].selected = Absent
           /\ h.sources[i].level = Absent

\* C27: helpers encode only immutable topology: the helper a block exports
\* holds no status attribute, so that a block constructed from it has its
\* status only from a fresh subscription or query.
C27_HelperTopologyOnly == exported # NoBlock => NoStatus(exported)

\* The step is a sourceLevel publish of an index that is not a source.
UnknownSourceLevel ==
    /\ last'.op = "publish"
    /\ last'.attr = "sourceLevel"
    /\ last'.channel \notin Sources

\* C30: a sourceLevel publish whose channel index is not one of the
\* SourceSelector's sources is logged and dropped: the callback returns
\* without raising and no source's level changes.
C30_UnknownSourceLevelDropped ==
    [][UnknownSourceLevel
         => (last'.outcome = "returned" /\ blk'.sources = blk.sources)]_vars

\* The threads that are inside __sync_command with the session as handle.
SessionCallers ==
    {t \in Threads : cst[t] \in {"put", "wait"} /\ chandle[t] = "dsp"}

\* C28: session mailbox correlation: when two threads are in a session-handle
\* command at the same time (the poller's query and a device_command), the
\* reply a caller takes from the mailbox is the reply to its own command,
\* never the reply to the other caller's command (no timeout, no transport
\* failure).
C28_SessionMailboxCorrelation ==
    [][(/\ Cardinality(SessionCallers) >= 2
        /\ returned' # returned
        /\ failed' = {} /\ wTimedOut' = {} /\ transportFailed' = "no")
         => \A r \in returned' \ returned : r.of = r.id]_vars

\* C29: no stale reply is carried over: a reply line that arrives after its
\* command timed out, or while no command is in flight, is never returned
\* as the reply to a command submitted later: every reply the serializer
\* delivers for a command is the device's reply to that command.
C29_NoStaleReply ==
    \A i \in DOMAIN delivered : delivered[i].of = delivered[i].id

\* The state StrayInit describes, as a state of the session specification.
ConnectedIdle ==
    /\ mainpc = "ready" /\ ready /\ ~exit
    /\ wpc = "check" /\ ppc = "check" /\ rxpc = "run"
    /\ command_queue = <<>> /\ wire = <<>> /\ devPending = <<>>
    /\ chandle["main"] = "B2"
    /\ npub = 0 /\ ncalls = [app |-> 0, polls |-> 0]
    /\ putLog = <<1, 2, 3>> /\ sentLog = <<1, 2, 3>>
    /\ returned = {[id |-> i, of |-> i] : i \in 1..3}
    /\ failed = {} /\ wTimedOut = {} /\ transportFailed = "no"

\* The numbers of the publishes a block's callback was called with, in the
\* order of the calls.
RECURSIVE CallsOf(_, _)
CallsOf(log, b) ==
    IF log = <<>> THEN <<>>
    ELSE (IF Head(log).block = b THEN <<Head(log).n>> ELSE <<>>)
         \o CallsOf(Tail(log), b)

\* The publishes for a token the rx loop has received: the device numbers
\* its publishes in the order it sends them, and publish n carries value n.
ReceivedFor(t) ==
    {n \in PublishTaken \ unknownPubs :
        \E i \in DOMAIN cb_log : cb_log[i].n = n /\ cb_log[i].token = t}

Max(S) == CHOOSE x \in S : \A y \in S : y <= x

\* C31: the publishes of one subscription token reach the owning block's
\* callback in the order their lines were received, each once, so that the
\* value the block holds is that of the last publish received.
C31_PublishOrder ==
    \A b \in BlockIds :
        LET calls == CallsOf(cb_log, b)
        IN  /\ \A i, j \in DOMAIN calls : i < j => calls[i] < calls[j]
            /\ Range(calls) = ReceivedFor(TokenOf(b))
            /\ calls # <<>> => calls[Len(calls)] = Max(ReceivedFor(TokenOf(b)))

\* Three publishes of token t1 have been delivered to B1.
C31_Witness == CallsOf(cb_log, "B1") = <<1, 2, 3>>

C33_LifecycleOrder ==
    [][/\ sentLog' # sentLog
            => (rxpc # "notstarted" /\ wpc # "notstarted")
       /\ (~ready /\ ready')
            => (mainpc = "blocks" /\ blocksLeft = <<>> /\ ppc' # "notstarted")
       /\ (~exit /\ exit') => ~ready
       /\ ~(ready' /\ exit')]_vars

\* connect sent its commands and returned with the session ready, and close
\* has set the exit flag and returned.
C33_Witness ==
    /\ mainpc = "closed"
    /\ Len(sentLog) >= 3
    /\ exit /\ ~ready

\* C34: the steps of a poller cycle come in a fixed order: the fault query is
\* submitted at the loop test, while the exit flag is not set; its reply is
\* stored as the fault set and the network query submitted; its reply is
\* stored as the network status, the re-registration loop runs over the live
\* blocks, and only then the poller waits and returns to the loop test.
C34_PollerCycleOrder ==
    [][/\ (ppc # "faults" /\ ppc' = "faults")
            => /\ ppc = "check" /\ ~exit
               /\ cst'["poller"] = "put" /\ chandle'["poller"] = "dsp"
               /\ faults' = faults /\ network' = network
       /\ (ppc # "network" /\ ppc' = "network")
            => /\ ppc = "faults" /\ cst["poller"] = "ret"
               /\ faults' = "stored" /\ network' = network
               /\ cst'["poller"] = "put" /\ chandle'["poller"] = "dsp"
       /\ (ppc # "check" /\ ppc' = "check")
            => /\ ppc \in {"notstarted", "network"}
               /\ ppc = "network"
                    => /\ cst["poller"] = "ret"
                       /\ faults = "stored" /\ network' = "stored"
                       /\ resubscribed' = Reregistered(blocks)
       /\ faults' # faults => ppc = "faults"
       /\ network' # network => ppc = "network"]_vars

\* The poller has gone through a whole cycle and is back at the loop test.
C34_Witness ==
    /\ ppc = "check"
    /\ faults = "stored" /\ network = "stored"
    /\ ncalls.polls = 1

\* C35: AudioOutput.set_invert(value, channel) sets the invert attribute: the
\* command it issues names the attribute invert of the given channel, and
\* when it is answered OK only the `inverted` field of that channel changes
\* locally, its level and muted fields staying as they were.
C35_SetInvertTargetsInvert ==
    [][(last'.op = "set_invert" /\ last'.channel \in Channels)
         => /\ last'.attr = "invert"
            /\ last'.reply = "OK"
                 => /\ blk'.channels[last'.channel].inverted = last'.value
                    /\ blk'.channels[last'.channel].level
                           = blk.channels[last'.channel].level
                    /\ blk'.channels[last'.channel].muted
                           = blk.channels[last'.channel].muted]_vars

\* C36: after a SourceSelector has queried its attributes, num_input and
\* num_output are the reported numInputs and numOutputs integer-divided by 2
\* when the device reports stereoEnable = true, and the reported values when
\* it reports false; either way `sources` has exactly num_input entries,
\* indexed 1..num_input, none of them selected.
C36_StereoHalving ==
    blk.pc = "queried"
      => /\ blk.device.stereoEnable = "true"
              => /\ 2 * blk.num_input \in {blk.device.numInputs,
                                           blk.device.numInputs - 1}
                 /\ 2 * blk.num_output \in {blk.device.numOutputs,
                                            blk.device.numOutputs - 1}
         /\ blk.device.stereoEnable = "false"
              => /\ blk.num_input = blk.device.numInputs
                 /\ blk.num_output = blk.device.numOutputs
         /\ DOMAIN blk.sources = 1..blk.num_input
         /\ Cardinality(DOMAIN blk.sources) = blk.num_input
         /\ \A i \in DOMAIN blk.sources :
                /\ blk.sources[i].index = i
                /\ blk.sources[i].selected = "false"

\* A stereo selector reporting 6 inputs and 2 outputs has 3 and 1.
C36_Witness ==
    /\ blk.pc = "queried"
    /\ blk.device.stereoEnable = "true"
    /\ blk.device.numInputs = 6 /\ blk.device.numOutputs = 2
    /\ blk.num_input = 3 /\ blk.num_output = 1
    /\ DOMAIN blk.sources = {1, 2, 3}

\* C37: constructing a SourceSelector from the device's answers always
\* completes and yields a block whose output_level is defined, whether or
\* not an outputLevel publish reaches the block before the constructor
\* builds its helper.
C37_ConstructionCompletes ==
    blk.class = "SourceSelector"
      => /\ blk.pc # "failed"
         /\ blk.pc = "live" => blk.output_level # Absent

\* The step is the delivery of a publish of the given type that carried a
\* vector of values.
VectorPublish(attr) == last'.op = "publish" /\ last'.attr = attr

\* Channel i after a vector publish that writes the named field.
OnlyFieldChanged(i, field) ==
    /\ blk'.channels[i][field] = IF i <= Len(last'.vec) THEN last'.vec[i]
                                 ELSE blk.channels[i][field]
    /\ \A f \in DOMAIN blk.channels[i] \ {field} :
           blk'.channels[i][f] = blk.channels[i][f]

\* C38: a `mutes` publish carrying n values sets muted of the channels 1..n
\* of a level-and-mute block to the values at the same positions and changes
\* nothing else: level, label, minimum and maximum of every channel stay,
\* positions beyond the block's channels are ignored, no channel is created
\* and the callback returns.  A `levels` publish does the same to the
\* current level.
C38_VectorPublishFrame ==
    [][/\ VectorPublish("mutes")
            => /\ last'.outcome = "returned"
               /\ DOMAIN blk'.channels = DOMAIN blk.channels
               /\ \A i \in DOMAIN blk.channels : OnlyFieldChanged(i, "muted")
               /\ [blk' EXCEPT !.channels = blk.channels] = blk
       /\ VectorPublish("levels")
            => /\ last'.outcome = "returned"
               /\ DOMAIN blk'.channels = DOMAIN blk.channels
               /\ \A i \in DOMAIN blk.channels : OnlyFieldChanged(i, "level")
               /\ [blk' EXCEPT !.channels = blk.channels] = blk]_vars

\* A mutes publish with one value more than the block has channels has been
\* delivered after the levels were known: the channels have the mutes of the
\* publish, not all the same, and their levels.
C38_Witness ==
    /\ last.op = "publish" /\ last.attr = "mutes"
    /\ Len(last.vec) = NumChannels + 1
    /\ DOMAIN blk.channels = Channels
    /\ \A i \in Channels : /\ blk.channels[i].muted = last.vec[i]
                           /\ blk.channels[i].level \in Levels
    /\ blk.channels[1].muted # blk.channels[2].muted

\* The part of the input the transport has handed over so far.
Received == SubSeq(rx_input, 1, Len(rx_input) - Len(rx_stream))

\* The text behind the last newline: the line that is not yet complete.
RECURSIVE Unterminated(_)
Unterminated(text) ==
    LET pos == Find(text, 1)
    IN  IF pos = 0 THEN text
        ELSE Unterminated(SubSeq(text, pos + 1, Len(text)))

\* The lines whose first symbol is `+OK`, `-ERR` or `!`, as they stand.
RECURSIVE LinesStartingWithPrefix(_)
LinesStartingWithPrefix(ls) ==
    IF ls = <<>> THEN <<>>
    ELSE (IF Head(ls) # <<>> /\ Head(Head(ls)) \in {"+OK", "-ERR", "!"}
          THEN <<Head(ls)>> ELSE <<>>)
         \o LinesStartingWithPrefix(Tail(ls))

\* C39, as stated: however the transport chunks the stream, the lines
\* returned so far, followed by the lines still waiting in the buffer, are
\* the complete lines received that start with `+OK`, `-ERR` or `!`, in
\* order and once each.
C39_LineFramingVerbatim ==
    rx_lines \o LinesStartingWithPrefix(SplitLines(rx_buffer))
        = LinesStartingWithPrefix(SplitLines(Received))

\* C39, amended: however the transport chunks the stream, the lines returned
\* so far, followed by the lines still waiting in the buffer, are the
\* complete lines received that, trimmed of surrounding blanks, are not
\* empty and start with `+OK`, `-ERR` or `!`, each trimmed, in order and once
\* each; the incomplete trailing line of what was received is the
\* incomplete trailing line of the buffer, so it is returned only after its
\* newline has arrived.
C39_LineFraming ==
    /\ rx_lines \o PrefixedLines(SplitLines(rx_buffer))
           = PrefixedLines(SplitLines(Received))
    /\ Unterminated(rx_buffer) = Unterminated(Received)
    /\ Len(rx_lines) <= Len(SplitLines(Received))

\* A line with a trailing blank arrived in two chunks and was returned
\* trimmed; the beginning of the next line waits in the buffer.
C39_Witness ==
    /\ rx_input = <<"+OK", " ", "\n", "!">>
    /\ rx_stream = <<>>
    /\ rx_lines = << <<"+OK">> >>
    /\ rx_buffer = <<"!">>
=============================================================================
